---- MODULE Spec2Model ----
(***************************************************************************)
(* Verification model of book_converter: the chapter pattern detector      *)
(* (chapter_patterns.py), the section building of the EPUB writer          *)
(* (formats.py, EPUBConverter.convert), the text normalization and column  *)
(* detection (utils.py), the PDFConverter: its construction, its text      *)
(* extraction, its batch conversion and its single-format operations       *)
(* (converter.py), the convert methods of the format writers (formats.py)  *)
(* and the batch run of the command line (cli.py).                         *)
(*                                                                         *)
(* Text is a sequence of one-character strings; the markup inserted by the *)
(* detector is kept as one element per tag.  Positions follow Python:      *)
(* offsets are 0-based, spans and slices are half-open.                    *)
(***************************************************************************)
EXTENDS Integers, Sequences, FiniteSets, TLC

VARIABLES
    detector,       \* the ChapterDetector object, or NoDetector
    ctor,           \* the last ChapterDetector(...) call and what it raised
    det_call,       \* the last method call on the detector and its result
    pages,          \* PDFConverter.extract_text(): one text per page
    pdf_toc,        \* PDFConverter.toc: <<level, title, page>> entries
    kwargs,         \* the options of the EPUBConverter.convert call
    text_by_page,   \* convert's cleaned page texts
    chapters,       \* convert's chapters list (the spine)
    toc,            \* convert's toc list (the navigation)
    log,            \* pipeline stages run and warnings logged, in order
    result,         \* what convert did: "none", "returned", "ValueError"
    fs,             \* what is at pdf_path and what the writers will find, or
                    \* the working directory of a batch run of the command line
    converter,      \* the PDFConverter object, or NoConverter
    call            \* the last call of the extraction or converter and its outcome

det_vars == <<detector, ctor, det_call>>
epub_vars == <<pages, pdf_toc, kwargs, text_by_page, chapters, toc, log, result>>
conv_vars == <<fs, converter, call>>
vars == <<detector, ctor, det_call, pages, pdf_toc, kwargs, text_by_page,
          chapters, toc, log, result, fs, converter, call>>

(***************************************************************************)
(* Bounds                                                                  *)
(***************************************************************************)
MaxPatLen == 2
MaxTextLen == 3
MaxToc == 2
MaxPages == 4
MaxPagesNoToc == 225
MaxNormLen == 5
MaxBlocks == 3
MaxDocPages == 2
MaxFormats == 3
MaxInputs == 2

\* An option of a call: left out, or given with a value.
Absent == <<>>
Given(v) == <<v>>
NoKwargs == "none"      \* before any call

(***************************************************************************)
(* Python list and string primitives                                       *)
(***************************************************************************)
Min(a, b) == IF a < b THEN a ELSE b
Max(a, b) == IF a > b THEN a ELSE b

\* One bound of a slice s[a:b] over a list of length n: negative values count
\* from the end, and the result is clamped to 0..n.
SliceBound(n, a) == IF a < 0 THEN Max(a + n, 0) ELSE Min(a, n)

\* The 1-based indices selected by the slice [a:b] of a list of length n.
SliceIdx(n, a, b) ==
    LET lo == SliceBound(n, a)
        hi == SliceBound(n, b)
    IN [k \in 1..Max(hi - lo, 0) |-> lo + k]

\* s[a:b]
Slice(s, a, b) == LET ix == SliceIdx(Len(s), a, b) IN [k \in 1..Len(ix) |-> s[ix[k]]]

\* "".join(parts)
RECURSIVE Join(_)
Join(parts) == IF parts = <<>> THEN <<>> ELSE Head(parts) \o Join(Tail(parts))

(***************************************************************************)
(* The regular expressions of the model: a pattern is a sequence of the    *)
(* characters below; "c" and "." match one character ("." any character,   *)
(* newline included, as under re.DOTALL), "x*" repeats greedily, and an    *)
(* unclosed "(" or a "*" with nothing to repeat does not compile.          *)
(***************************************************************************)
RECURSIVE re_parse(_, _)
re_parse(p, k) ==
    IF k > Len(p) THEN [ok |-> TRUE, atoms |-> <<>>]
    ELSE IF p[k] \in {"(", "*"} THEN [ok |-> FALSE, atoms |-> <<>>]
    ELSE LET star == k + 1 <= Len(p) /\ p[k + 1] = "*"
             rest == re_parse(p, IF star THEN k + 2 ELSE k + 1)
         IN [ok |-> rest.ok,
             atoms |-> <<[ch |-> p[k], star |-> star]>> \o rest.atoms]

\* re.compile(pattern, re.MULTILINE | re.DOTALL): the compiled atoms, or re.error
re_compile(p) == re_parse(p, 1)

\* The end of the first match (in backtracking priority order) of atoms[k..]
\* at offset i of text, or -1. An end equal to forbid is rejected: the
\* scanner does not accept an empty match where the previous match ended empty.
RECURSIVE re_match(_, _, _, _, _, _)
re_match(atoms, dotall, k, text, i, forbid) ==
    IF k > Len(atoms) THEN (IF i = forbid THEN -1 ELSE i)
    ELSE LET a == atoms[k]
             fits == /\ i < Len(text)
                     /\ \/ a.ch = text[i + 1]
                        \/ a.ch = "." /\ (dotall \/ text[i + 1] # "\n")
         IN IF a.star
            THEN LET r == IF fits THEN re_match(atoms, dotall, k, text, i + 1, forbid)
                          ELSE -1
                 IN IF r # -1 THEN r
                    ELSE re_match(atoms, dotall, k + 1, text, i, forbid)
            ELSE IF fits THEN re_match(atoms, dotall, k + 1, text, i + 1, forbid)
                 ELSE -1

\* The scanner behind finditer and sub, from offset pos: the spans <<start, end>>
\* of the non-overlapping matches, left to right.
RECURSIVE re_scan(_, _, _, _, _)
re_scan(atoms, dotall, text, pos, must_advance) ==
    IF pos > Len(text) THEN <<>>
    ELSE LET e == re_match(atoms, dotall, 1, text, pos,
                           IF must_advance THEN pos ELSE -1)
         IN IF e = -1 THEN re_scan(atoms, dotall, text, pos + 1, FALSE)
            ELSE <<<<pos, e>>>> \o re_scan(atoms, dotall, text, e, e = pos)

\* self.regex.finditer(text), the regex compiled with re.DOTALL
re_finditer(atoms, text) == re_scan(atoms, TRUE, text, 0, FALSE)

\* re.sub(pattern, '', text) for a compiled pattern without flags: the text
\* outside the matches.
re_sub_empty(atoms, text) ==
    LET m == re_scan(atoms, FALSE, text, 0, FALSE)
    IN Join([k \in 1..(Len(m) + 1) |->
              Slice(text, IF k = 1 THEN 0 ELSE m[k - 1][2],
                          IF k > Len(m) THEN Len(text) ELSE m[k][1])])

\* match.group(0)
group0(text, span) == Slice(text, span[1], span[2])

(***************************************************************************)
(* chapter_patterns.py: ChapterDetector                                    *)
(***************************************************************************)
NoDetector == [state |-> "none"]
NoCall == [op |-> "none"]

\* ChapterDetector._compile_pattern, with the re.error swallowed
_compile_pattern_swallow(pattern) ==
    LET c == re_compile(pattern)
    IN [raised |-> "none", regex |-> c.atoms]

\* ChapterDetector._compile_pattern: the compiled regex, or ValueError when
\* re.compile raises re.error.
_compile_pattern(pattern) ==
    LET c == re_compile(pattern)
    IN IF c.ok THEN [raised |-> "none", regex |-> c.atoms]
       ELSE [raised |-> "ValueError", regex |-> <<>>]

\* ChapterDetector.__init__: the constructed object, or the exception that
\* leaves the caller without one.
ChapterDetector__init__(pattern, style_class) ==
    LET c == _compile_pattern(pattern)
    IN IF c.raised = "none"
       THEN [raised |-> "none",
             self |-> [state |-> "configured", pattern |-> pattern,
                       style_class |-> style_class, regex |-> c.regex]]
       ELSE [raised |-> c.raised, self |-> NoDetector]

\* f'<div class="{self.style_class}">{opening}</div>'
OpenTag(style_class) == "<div class=\"" \o style_class \o "\">"
CloseTag == "</div>"
styled_opening(style_class, opening) ==
    <<OpenTag(style_class)>> \o opening \o <<CloseTag>>

\* The loop of format_chapter_openings over matches[1..k] in the given order
\* of visit: each step rewrites the current text at the span the match has in
\* the text the matches were found in.
replace_span(self, found_in, text, span) ==
    Slice(text, 0, span[1])
        \o styled_opening(self.style_class, group0(found_in, span))
        \o Slice(text, span[2], Len(text))

RECURSIVE replace_forward(_, _, _, _, _)
replace_forward(self, found_in, text, matches, k) ==
    IF k > Len(matches) THEN text
    ELSE replace_forward(self, found_in,
                         replace_span(self, found_in, text, matches[k]), matches, k + 1)

RECURSIVE replace_reversed(_, _, _, _, _)
replace_reversed(self, found_in, text, matches, k) ==
    IF k = 0 THEN text
    ELSE replace_reversed(self, found_in,
                          replace_span(self, found_in, text, matches[k]), matches, k - 1)

\* ChapterDetector.format_chapter_openings, with the matches visited first to last
format_chapter_openings_forward(self, text) ==
    IF self.pattern = <<>> THEN text
    ELSE replace_forward(self, text, text, re_finditer(self.regex, text), 1)

\* ChapterDetector.format_chapter_openings, without the test of the pattern
format_chapter_openings_unguarded(self, text) ==
    LET matches == re_finditer(self.regex, text)
    IN replace_reversed(self, text, text, matches, Len(matches))

\* ChapterDetector.format_chapter_openings
format_chapter_openings(self, text) ==
    IF self.pattern = <<>> THEN text
    ELSE LET matches == re_finditer(self.regex, text)
         IN replace_reversed(self, text, text, matches, Len(matches))

\* ChapterDetector.extract_chapter_titles, losing the last match
extract_chapter_titles_short(self, text) ==
    IF self.pattern = <<>> THEN <<>>
    ELSE LET matches == re_finditer(self.regex, text)
         IN [k \in 1..Max(Len(matches) - 1, 0) |-> group0(text, matches[k])]

\* ChapterDetector.extract_chapter_titles
extract_chapter_titles(self, text) ==
    IF self.pattern = <<>> THEN <<>>
    ELSE LET matches == re_finditer(self.regex, text)
         IN [k \in 1..Len(matches) |-> group0(text, matches[k])]

(***************************************************************************)
(* Inputs of the detector                                                  *)
(***************************************************************************)
SeqsUpTo(S, n) == UNION {[1..k -> S] : k \in 0..n}
PatternChars == {"a", ".", "*", "("}
TextChars == {"a", "b", "\n"}
Patterns == SeqsUpTo(PatternChars, MaxPatLen)
Texts == SeqsUpTo(TextChars, MaxTextLen)
DefaultStyleClass == "chapter-opening"
StyleClasses == {DefaultStyleClass, "custom-chapter"}

(***************************************************************************)
(* Detector actions                                                        *)
(***************************************************************************)
DetIdle == detector = NoDetector /\ ctor = NoCall /\ det_call = NoCall

\* detector = ChapterDetector(pattern, style_class)
NewChapterDetector(pattern, style_class) ==
    /\ ctor = NoCall
    /\ \E r \in {ChapterDetector__init__(pattern, style_class)} :
          /\ ctor' = [op |-> "init", pattern |-> pattern,
                      style_class |-> style_class, raised |-> r.raised]
          /\ detector' = r.self
    /\ UNCHANGED <<det_call, epub_vars, conv_vars>>

\* detector.format_chapter_openings(text), which gives the detector up when
\* the text has no chapter opening
FormatChapterOpenings_invalidating(text) ==
    /\ detector # NoDetector
    /\ \E r \in {format_chapter_openings(detector, text)} :
          /\ det_call' = [op |-> "format", text |-> text, result |-> r]
          /\ detector' = IF r = text THEN [detector EXCEPT !.state = "invalid"]
                         ELSE detector
    /\ UNCHANGED <<ctor, epub_vars, conv_vars>>

\* detector.format_chapter_openings(text)
FormatChapterOpenings(text) ==
    /\ detector # NoDetector
    /\ det_call' = [op |-> "format", text |-> text,
                    result |-> format_chapter_openings(detector, text)]
    /\ UNCHANGED <<detector, ctor, epub_vars, conv_vars>>

\* detector.extract_chapter_titles(text)
ExtractChapterTitles(text) ==
    /\ detector # NoDetector
    /\ det_call' = [op |-> "extract", text |-> text,
                    result |-> extract_chapter_titles(detector, text)]
    /\ UNCHANGED <<detector, ctor, epub_vars, conv_vars>>

(***************************************************************************)
(* formats.py: EPUBConverter.convert                                       *)
(***************************************************************************)
ZWSP == "u200b"     \* the character U+200B, which \s does not match
IsSpace(c) == c \in {" ", "\n"}

\* re.sub(r'\s+', ' ', page)
RECURSIVE collapse_whitespace(_, _)
collapse_whitespace(page, k) ==
    IF k > Len(page) THEN <<>>
    ELSE IF IsSpace(page[k])
         THEN (IF k > 1 /\ IsSpace(page[k - 1]) THEN <<>> ELSE <<" ">>)
                  \o collapse_whitespace(page, k + 1)
         ELSE <<page[k]>> \o collapse_whitespace(page, k + 1)

\* re.sub(r'^\s+|\s+$', '', page)
RECURSIVE strip_edges(_)
strip_edges(page) ==
    IF page = <<>> THEN <<>>
    ELSE IF IsSpace(Head(page)) THEN strip_edges(Tail(page))
    ELSE IF IsSpace(page[Len(page)]) THEN strip_edges(SubSeq(page, 1, Len(page) - 1))
    ELSE page

\* re.sub(r'​', '\n', page)
zwsp_to_newline(page) == [k \in 1..Len(page) |-> IF page[k] = ZWSP THEN "\n" ELSE page[k]]

\* for pattern in strip_text: page = re.sub(pattern, '', page)
RECURSIVE strip_patterns(_, _, _)
strip_patterns(page, strip_text, k) ==
    IF k > Len(strip_text) THEN [raised |-> "none", page |-> page]
    ELSE LET c == re_compile(strip_text[k])
         IN IF ~c.ok THEN [raised |-> "re.error", page |-> page]
            ELSE strip_patterns(re_sub_empty(c.atoms, page), strip_text, k + 1)

\* The body of the page cleaning loop for one page.
clean_page(page, strip_text) ==
    strip_patterns(zwsp_to_newline(strip_edges(collapse_whitespace(page, 1))),
                   strip_text, 1)

\* The page cleaning loop: the cleaned text of every page, or the first error.
clean_pages(text_by_page_, strip_text) ==
    LET cleaned == [k \in 1..Len(text_by_page_) |-> clean_page(text_by_page_[k], strip_text)]
    IN IF \E k \in 1..Len(cleaned) : cleaned[k].raised # "none"
       THEN [raised |-> "re.error", text_by_page |-> <<>>]
       ELSE [raised |-> "none",
             text_by_page |-> [k \in 1..Len(cleaned) |-> cleaned[k].page]]

\* Entries of the log: a pipeline stage that ran, or a logger call.
Stage(name) == [level |-> "stage", msg |-> name]
Logged(level, msg) == [level |-> level, msg |-> msg]

\* EPUBConverter._create_chapter: the chapter's file name, title and body.
_create_chapter(id_name, title, content) ==
    [file_name |-> id_name \o ".xhtml", title |-> title, content |-> content]

\* A chapter together with the indices of the pages its content was sliced from.
FromPages(chapter, idx) == chapter @@ [pages |-> idx]

PageGroupLimit == 30        \* if page_count > 30
MinChunkSize == 10          \* max(10, ...
TargetChapters == 20        \* ... page_count // 20)
DefaultTocDepth == 3        \* kwargs.get('toc_depth', 3)

\* if title in (' ', '- ', '\u200b '), taking the empty title for a placeholder too
is_skipped_title_or_empty(title) == title \in {"", " ", "- ", ZWSP \o " "}

\* if title in (' ', '- ', '\u200b '): continue
is_skipped_title(title) == title \in {" ", "- ", ZWSP \o " "}

\* if level < kwargs.get('toc_depth', 3)
in_toc_strict(level, depth) == level < depth

\* if level <= kwargs.get('toc_depth', 3)
in_toc(level, depth) == level <= depth

\* kwargs.get('toc_depth', 3)
toc_depth_of(kw) == IF kw.toc_depth = Absent THEN DefaultTocDepth ELSE kw.toc_depth[1]

\* The loop over the outline, from the entry with 0-based index i on;
\* acc holds the chapters and toc lists built so far.
RECURSIVE toc_loop(_, _, _, _, _, _)
toc_loop(outline, tbp, chapter_detector, depth, i, acc) ==
    IF i >= Len(outline) THEN acc
    ELSE LET level == outline[i + 1][1]
             title == outline[i + 1][2]
             page == outline[i + 1][3]
         IN IF is_skipped_title(title)
            THEN toc_loop(outline, tbp, chapter_detector, depth, i + 1, acc)
            ELSE LET next_page == IF i + 1 < Len(outline) THEN outline[i + 2][3]
                                  ELSE Len(tbp)
                     idx == SliceIdx(Len(tbp), page - 1, next_page - 1)
                     joined == Join([k \in 1..Len(idx) |-> tbp[idx[k]]])
                     chapter_content ==
                         IF chapter_detector # NoDetector
                         THEN format_chapter_openings(chapter_detector, joined)
                         ELSE joined
                     chapter == FromPages(
                         _create_chapter("chapter_" \o ToString(i), title, chapter_content),
                         idx)
                 IN toc_loop(outline, tbp, chapter_detector, depth, i + 1,
                        [chapters |-> Append(acc.chapters, chapter),
                         toc |-> IF in_toc(level, depth)
                                 THEN Append(acc.toc, chapter.file_name)
                                 ELSE acc.toc])

\* chunk_size, rounding the division up
chunk_size_ceil(page_count) ==
    Max(MinChunkSize, (page_count + TargetChapters - 1) \div TargetChapters)

\* chunk_size = max(10, page_count // 20)
chunk_size_of(page_count) ==
    Max(MinChunkSize, page_count \div TargetChapters)

\* range(0, page_count, chunk_size)
RangeStep(stop, step) ==
    [k \in 1..((stop + step - 1) \div step) |-> (k - 1) * step]

\* The chapters of a document without outline: one per chunk of pages when
\* there are more than 30 pages, otherwise one per page.
no_toc_chapters(tbp) ==
    LET page_count == Len(tbp)
    IN IF page_count > PageGroupLimit
       THEN LET chunk_size == chunk_size_of(page_count)
                starts == RangeStep(page_count, chunk_size)
            IN [k \in 1..Len(starts) |->
                  LET i == starts[k]
                      chapter_num == (i \div chunk_size) + 1
                      end_idx == Min(i + chunk_size, page_count)
                      idx == SliceIdx(page_count, i, end_idx)
                  IN FromPages(
                       _create_chapter("chapter_" \o ToString(chapter_num),
                                       "Chapter " \o ToString(chapter_num),
                                       Join([j \in 1..Len(idx) |-> tbp[idx[j]]])),
                       idx)]
       ELSE [k \in 1..page_count |->
               FromPages(_create_chapter("page_" \o ToString(k),
                                         "Page " \o ToString(k), tbp[k]),
                         <<k>>)]

\* The chapters and the toc of the book, by either path.
build_chapters(outline, tbp, chapter_detector, depth) ==
    IF outline # <<>>
    THEN toc_loop(outline, tbp, chapter_detector, depth, 0,
                  [chapters |-> <<>>, toc |-> <<>>])
    ELSE LET chs == no_toc_chapters(tbp)
         IN [chapters |-> chs, toc |-> [k \in 1..Len(chs) |-> chs[k].file_name]]

\* The chapter detector set up from the chapter_pattern option, and the
\* warning logged when its construction fails.
init_chapter_detector(kw) ==
    IF kw.chapter_pattern # Absent /\ kw.chapter_pattern[1] # <<>>
    THEN LET r == ChapterDetector__init__(kw.chapter_pattern[1], DefaultStyleClass)
         IN IF r.raised = "none" THEN [detector |-> r.self, log |-> <<>>]
            ELSE [detector |-> NoDetector,
                  log |-> <<Logged("warning", "Failed to initialize chapter detector")>>]
    ELSE [detector |-> NoDetector, log |-> <<>>]

\* EPUBConverter.convert as a whole: the lists it built, what it logged and
\* how it ended.
convert(text_by_page_, outline, kw) ==
    LET cleaned == clean_pages(text_by_page_, kw.strip_text)
    IN IF cleaned.raised # "none"
       THEN [text_by_page |-> <<>>, chapters |-> <<>>, toc |-> <<>>,
             log |-> <<Stage("extract_text"),
                       Logged("error", "Error converting to EPUB")>>,
             result |-> "ValueError"]
       ELSE LET det == init_chapter_detector(kw)
                built == build_chapters(outline, cleaned.text_by_page, det.detector,
                                        toc_depth_of(kw))
            IN [text_by_page |-> cleaned.text_by_page,
                chapters |-> built.chapters, toc |-> built.toc,
                log |-> <<Stage("extract_text")>> \o det.log
                           \o <<Stage("write_epub")>>,
                result |-> "returned"]

(***************************************************************************)
(* utils.py: get_toc                                                       *)
(***************************************************************************)
\* The items of doc.get_toc() that have at least three fields of the right types.
RECURSIVE get_toc(_)
get_toc(items) ==
    IF items = <<>> THEN <<>>
    ELSE LET item == Head(items)
         IN IF /\ Len(item) >= 3
               /\ item[1] \in Int /\ item[2] \in STRING /\ item[3] \in Int
            THEN <<SubSeq(item, 1, 3)>> \o get_toc(Tail(items))
            ELSE get_toc(Tail(items))

(***************************************************************************)
(* Documents and options of the conversion                                 *)
(***************************************************************************)
\* The text extract_text returns for page p: pages cycle through four texts,
\* one with a blank line and one with a zero-width space inside.
PageCycle == << <<"A">>, <<"B", "\n", "\n", "b">>, <<"C">>, <<"D", ZWSP, "d">> >>
RawPage(p) == PageCycle[((p - 1) % Len(PageCycle)) + 1]
Document(n) == [p \in 1..n |-> RawPage(p)]

\* The level and title of an outline entry: the empty title and the
\* placeholder titles, a titled entry at the default navigation depth and one
\* below it.
OutlineHeads ==
    {<<1, "">>, <<1, " ">>, <<1, "- ">>, <<1, ZWSP \o " ">>, <<3, "Intro">>, <<4, "Deep">>}
\* doc.get_toc() items for a document of n pages: well-formed entries with a
\* page from 0 to n + 1, and an item cut short.
OutlineItems(n) ==
    {<<h[1], h[2], p>> : h \in OutlineHeads, p \in 0..(n + 1)} \cup {<<1, "Intro">>}

TocDepths == {Absent, Given(4)}
ChapterPatterns == {Absent, Given(<<"B">>), Given(<<"(">>)}
StripTexts == {<< <<"b">> >>, << <<"(">> >>}
\* Every toc_depth with every chapter_pattern, and each strip_text on its own.
Kwargs ==
    [toc_depth : TocDepths, chapter_pattern : ChapterPatterns, strip_text : {<<>>}]
        \cup [toc_depth : {Absent}, chapter_pattern : {Absent}, strip_text : StripTexts]

(***************************************************************************)
(* Conversion actions                                                      *)
(***************************************************************************)
EpubIdle ==
    /\ kwargs = NoKwargs /\ text_by_page = <<>> /\ chapters = <<>> /\ toc = <<>>
    /\ log = <<>> /\ result = "none"

\* PDFConverter(pdf_path): the pages and the outline of the opened document.
OpenDocument ==
    \/ \E n \in 0..MaxPages : \E items \in SeqsUpTo(OutlineItems(n), MaxToc) :
          pages = Document(n) /\ pdf_toc = get_toc(items)
    \/ \E n \in 0..MaxPagesNoToc : pages = Document(n) /\ pdf_toc = <<>>

\* EPUBConverter(pdf_converter).convert(output_path, **kw)
EPUBConvert(kw) ==
    /\ result = "none"
    /\ \E r \in {convert(pages, pdf_toc, kw)} :
          /\ kwargs' = kw
          /\ text_by_page' = r.text_by_page
          /\ chapters' = r.chapters
          /\ toc' = r.toc
          /\ log' = r.log
          /\ result' = r.result
    /\ UNCHANGED <<pages, pdf_toc, det_vars, conv_vars>>

(***************************************************************************)
(* utils.py: normalize_text                                                *)
(*                                                                         *)
(* Characters outside ASCII are written by their code point: "u0301" is    *)
(* the combining acute accent, "u00e1" the letter a with acute (and so  *)
(* on for the other composed letters), "u2014" and "u2013" the em and en   *)
(* dash.                                                                   *)
(***************************************************************************)
IsLower(c) == c \in {"a", "b", "f", "i", "l"}                   \* [a-z]
Composed == {"u00e1", "u00ed", "u013a", "u00c1"}
IsWord(c) == IsLower(c) \/ c \in Composed \cup {"A", "1", "_"}  \* \w
IsMarker(c) == c \in {"\"", "'", "u2014", "u2013"}              \* ["'—–]
IsQuote(c) == c \in {"\"", "'"}                                 \* ["']

\* The character a letter and the combining acute accent after it compose
\* into, or the letter itself when there is none.
compose_acute(c) ==
    CASE c = "a" -> "u00e1" [] c = "i" -> "u00ed" [] c = "l" -> "u013a"
      [] c = "A" -> "u00c1" [] OTHER -> c

\* unicodedata.normalize('NFC', text)
RECURSIVE nfc(_)
nfc(text) ==
    IF text = <<>> THEN <<>>
    ELSE IF Len(text) >= 2 /\ text[2] = "u0301" /\ compose_acute(text[1]) # text[1]
         THEN <<compose_acute(text[1])>> \o nfc(SubSeq(text, 3, Len(text)))
         ELSE <<Head(text)>> \o nfc(Tail(text))

\* text.split('\n')
RECURSIVE split_lines(_, _)
split_lines(text, line) ==
    IF text = <<>> THEN <<line>>
    ELSE IF Head(text) = "\n" THEN <<line>> \o split_lines(Tail(text), <<>>)
    ELSE split_lines(Tail(text), Append(line, Head(text)))

\* '\n'.join(lines)
RECURSIVE join_lines(_)
join_lines(lines) ==
    IF lines = <<>> THEN <<>>
    ELSE IF Len(lines) = 1 THEN lines[1]
    ELSE lines[1] \o <<"\n">> \o join_lines(Tail(lines))

\* The offset at which the run of whitespace starting at offset i ends.
RECURSIVE ws_end(_, _)
ws_end(text, i) ==
    IF i < Len(text) /\ IsSpace(text[i + 1]) THEN ws_end(text, i + 1) ELSE i

\* The offset at which the run of word characters starting at offset i ends.
RECURSIVE word_end(_, _)
word_end(text, i) ==
    IF i < Len(text) /\ IsWord(text[i + 1]) THEN word_end(text, i + 1) ELSE i

\* The number of newlines in text[i:j], and the offset after the last of them.
newlines_in(text, i, j) == Cardinality({k \in (i + 1)..j : text[k] = "\n"})
after_last_newline(text, i, j) ==
    CHOOSE k \in (i + 1)..j : text[k] = "\n" /\ \A n \in (k + 1)..j : text[n] # "\n"

\* There is a dialogue marker at offset i.
marker_at(text, i) == i < Len(text) /\ IsMarker(text[i + 1])

\* str.lstrip() and str.strip()
lstrip(text) == Slice(text, ws_end(text, 0), Len(text))
RECURSIVE rstrip(_)
rstrip(text) ==
    IF text # <<>> /\ IsSpace(text[Len(text)])
    THEN rstrip(SubSeq(text, 1, Len(text) - 1)) ELSE text
strip(text) == rstrip(lstrip(text))

\* The match of one of normalize_text's patterns at offset i of text: the
\* offset the match ends at and the expansion of the replacement template,
\* or no match.
NoMatch == [end |-> -1, repl |-> <<>>]

\* r'(?<!["\'\s—–])\s{2,}(?!["\'\s—–])' -> ' '
match_dialogue_spaces(text, i) ==
    LET j == ws_end(text, i)
    IN IF /\ j - i >= 2
          /\ ~(i > 0 /\ (IsMarker(text[i]) \/ IsSpace(text[i])))
          /\ ~marker_at(text, j)
       THEN [end |-> j, repl |-> <<" ">>]
       ELSE NoMatch

\* The line join, its second group taking a dialogue marker as well
match_line_join_into_dialogue(text, i, preserve_style) ==
    LET j == ws_end(text, i + 1)
    IN IF /\ \/ IsLower(text[i + 1])
             \/ preserve_style /\ text[i + 1] \in {",", ";", ":"}
          /\ newlines_in(text, i + 1, j) >= 1
          /\ j < Len(text) /\ (IsLower(text[j + 1]) \/ IsMarker(text[j + 1]))
       THEN [end |-> j + 1, repl |-> <<text[i + 1], " ", text[j + 1]>>]
       ELSE NoMatch

\* r'([a-z,;:])\s*\n\s*([a-z])(?!["\'—–])' -> r'\1 \2' with preserve_style,
\* r'([a-z])\s*\n\s*([a-z])' -> r'\1 \2' without
match_line_join(text, i, preserve_style) ==
    LET j == ws_end(text, i + 1)
    IN IF /\ \/ IsLower(text[i + 1])
             \/ preserve_style /\ text[i + 1] \in {",", ";", ":"}
          /\ newlines_in(text, i + 1, j) >= 1
          /\ j < Len(text) /\ IsLower(text[j + 1])
          /\ preserve_style => ~marker_at(text, j + 1)
       THEN [end |-> j + 1, repl |-> <<text[i + 1], " ", text[j + 1]>>]
       ELSE NoMatch

\* r'(["\']\s*[,.!?])\s*\n\s*([a-z])' -> r'\1\n\2'
match_quote_end(text, i) ==
    LET j == ws_end(text, i + 1)
        k == ws_end(text, j + 1)
    IN IF /\ IsQuote(text[i + 1])
          /\ j < Len(text) /\ text[j + 1] \in {",", ".", "!", "?"}
          /\ newlines_in(text, j + 1, k) >= 1
          /\ k < Len(text) /\ IsLower(text[k + 1])
       THEN [end |-> k + 1, repl |-> Slice(text, i, j + 1) \o <<"\n", text[k + 1]>>]
       ELSE NoMatch

\* r'([^.!?:])\s*\n\s*\n' -> r'\1\n\n'
match_paragraph_break(text, i) ==
    LET j == ws_end(text, i + 1)
    IN IF /\ text[i + 1] \notin {".", "!", "?", ":"}
          /\ newlines_in(text, i + 1, j) >= 2
       THEN [end |-> after_last_newline(text, i + 1, j),
             repl |-> <<text[i + 1], "\n", "\n">>]
       ELSE NoMatch

\* r'(\w+)-\s*\n\s*(\w+)(?!\s*["\'—–])' -> r'\1\2' with preserve_style,
\* r'(\w+)-\s*\n\s*(\w+)' -> r'\1\2' without. When the lookahead fails after
\* the whole second word, the second group gives back its last character.
match_hyphenation(text, i, preserve_style) ==
    LET w1 == word_end(text, i)
        j == ws_end(text, w1 + 1)
        w2 == word_end(text, j)
        e == IF preserve_style /\ marker_at(text, ws_end(text, w2)) THEN w2 - 1 ELSE w2
    IN IF /\ w1 > i
          /\ w1 < Len(text) /\ text[w1 + 1] = "-"
          /\ newlines_in(text, w1 + 1, j) >= 1
          /\ e > j
       THEN [end |-> e, repl |-> Slice(text, i, w1) \o Slice(text, j, e)]
       ELSE NoMatch

\* r'\n{3,}' -> '\n\n'
RECURSIVE newline_end(_, _)
newline_end(text, i) ==
    IF i < Len(text) /\ text[i + 1] = "\n" THEN newline_end(text, i + 1) ELSE i
match_blank_lines(text, i) ==
    LET j == newline_end(text, i)
    IN IF j - i >= 3 THEN [end |-> j, repl |-> <<"\n", "\n">>] ELSE NoMatch

rule_match(rule, text, i, preserve_style) ==
    CASE rule = "dialogue_spaces" -> match_dialogue_spaces(text, i)
      [] rule = "line_join" -> match_line_join(text, i, preserve_style)
      [] rule = "quote_end" -> match_quote_end(text, i)
      [] rule = "paragraph_break" -> match_paragraph_break(text, i)
      [] rule = "hyphenation" -> match_hyphenation(text, i, preserve_style)
      [] rule = "blank_lines" -> match_blank_lines(text, i)

\* re.sub(pattern, template, text) from offset pos on: the matches are taken
\* left to right and do not overlap; every pattern matches at least one
\* character.
RECURSIVE re_sub(_, _, _, _)
re_sub(rule, text, pos, preserve_style) ==
    IF pos >= Len(text) THEN <<>>
    ELSE LET m == CHOOSE r \in {rule_match(rule, text, pos, preserve_style)} : TRUE
         IN IF m.end = -1
            THEN <<text[pos + 1]>> \o re_sub(rule, text, pos + 1, preserve_style)
            ELSE m.repl \o re_sub(rule, text, m.end, preserve_style)

\* The body of the loop over the lines: the indentation is kept and the
\* whitespace of the rest collapsed, with preserve_style in a line of
\* dialogue only where no marker is next to it.
normalize_line(line, preserve_style) ==
    LET indent == IF preserve_style THEN Slice(line, 0, ws_end(line, 0)) ELSE <<>>
        content == IF indent # <<>> THEN lstrip(line) ELSE line
    IN indent \o (IF preserve_style /\ marker_at(content, ws_end(content, 0))
                  THEN re_sub("dialogue_spaces", content, 0, preserve_style)
                  ELSE collapse_whitespace(content, 1))

\* text.replace(old, new)
RECURSIVE str_replace(_, _, _)
str_replace(text, old, new) ==
    IF Len(text) < Len(old) THEN text
    ELSE IF SubSeq(text, 1, Len(old)) = old
         THEN new \o str_replace(SubSeq(text, Len(old) + 1, Len(text)), old, new)
         ELSE <<Head(text)>> \o str_replace(Tail(text), old, new)

\* text.replace('fi', 'fi') and text.replace('fl', 'fl'): in the source both
\* arguments of each call are the same two letters.
replace_ligatures(text) ==
    str_replace(str_replace(text, <<"f", "i">>, <<"f", "i">>),
                <<"f", "l">>, <<"f", "l">>)

\* The substitutions over the whole text, in the order of the code. The
\* substitution of r'\n(\s+[^\s])' by r'\n\1' puts back what it matched.
join_rules(text, preserve_style) ==
    IF preserve_style
    THEN re_sub("quote_end", re_sub("line_join", text, 0, TRUE), 0, TRUE)
    ELSE re_sub("paragraph_break", re_sub("line_join", text, 0, FALSE), 0, FALSE)

\* normalize_text without the last two statements
normalize_text_unfinished(text, preserve_style) ==
    IF text = <<>> THEN <<>>
    ELSE LET lines == split_lines(nfc(text), <<>>)
             processed == [k \in 1..Len(lines) |-> normalize_line(lines[k], preserve_style)]
         IN re_sub("hyphenation",
                   join_rules(replace_ligatures(join_lines(processed)), preserve_style),
                   0, preserve_style)

\* normalize_text(text, preserve_style)
normalize_text(text, preserve_style) ==
    IF text = <<>> THEN <<>>
    ELSE LET lines == split_lines(nfc(text), <<>>)
             processed == [k \in 1..Len(lines) |-> normalize_line(lines[k], preserve_style)]
         IN strip(re_sub("blank_lines",
                re_sub("hyphenation",
                   join_rules(replace_ligatures(join_lines(processed)), preserve_style),
                   0, preserve_style),
                0, preserve_style))

(***************************************************************************)
(* utils.py: detect_columns; converter.py: _extract_columns, extract_text  *)
(*                                                                         *)
(* A page is [blocks, width, height]. A block is the tuple PyMuPDF gives   *)
(* for page.get_text("blocks"), cut after its text:                        *)
(* <<x0, y0, x1, y1, text>>; a block with no text field is                 *)
(* <<x0, y0, x1, y1>>. Coordinates are integers, and a threshold is given  *)
(* in tenths of the page width.                                            *)
(***************************************************************************)
DefaultThreshold == 3       \* threshold: float = 0.3
BandHeight == 20

\* int(y / d): the quotient truncated towards zero
int_div(y, d) == IF y >= 0 THEN y \div d ELSE -((-y) \div d)

\* The sort keys: lambda b: b[0], and lambda b: (int(b[1] / 20), b[0])
key_x0(b) == b[1]
key_band_x0(b) == <<int_div(b[2], BandHeight), b[1]>>
key_less(a, b, by) ==
    IF by = "x0" THEN key_x0(a) < key_x0(b)
    ELSE \/ key_band_x0(a)[1] < key_band_x0(b)[1]
         \/ key_band_x0(a)[1] = key_band_x0(b)[1] /\ key_band_x0(a)[2] < key_band_x0(b)[2]

\* sorted(blocks, key=...) and blocks.sort(key=...): the sort is stable, a
\* block goes behind the blocks whose key is not greater than its own.
RECURSIVE insert_sorted(_, _, _)
insert_sorted(sorted, b, by) ==
    IF sorted = <<>> THEN <<b>>
    ELSE IF key_less(b, Head(sorted), by) THEN <<b>> \o sorted
    ELSE <<Head(sorted)>> \o insert_sorted(Tail(sorted), b, by)

RECURSIVE stable_sort(_, _)
stable_sort(blocks, by) ==
    IF blocks = <<>> THEN <<>>
    ELSE insert_sorted(stable_sort(SubSeq(blocks, 1, Len(blocks) - 1), by),
                       blocks[Len(blocks)], by)

\* The loop of detect_columns, opening a column already at the threshold
RECURSIVE columns_loop_at_threshold(_, _, _, _, _, _)
columns_loop_at_threshold(sorted_blocks, k, page, threshold, columns, current_column) ==
    IF k > Len(sorted_blocks) THEN Append(columns, current_column)
    ELSE LET block == sorted_blocks[k]
         IN IF 10 * block[1] >= 10 * current_column[3] + threshold * page.width
            THEN columns_loop_at_threshold(sorted_blocks, k + 1, page, threshold,
                                           Append(columns, current_column),
                                           <<block[1], 0, block[3], page.height>>)
            ELSE columns_loop_at_threshold(sorted_blocks, k + 1, page, threshold,
                                           columns,
                                           [current_column EXCEPT ![3] = Max(@, block[3])])

\* The loop of detect_columns, the current column never extended
RECURSIVE columns_loop_unextended(_, _, _, _, _, _)
columns_loop_unextended(sorted_blocks, k, page, threshold, columns, current_column) ==
    IF k > Len(sorted_blocks) THEN Append(columns, current_column)
    ELSE LET block == sorted_blocks[k]
         IN IF 10 * block[1] > 10 * current_column[3] + threshold * page.width
            THEN columns_loop_unextended(sorted_blocks, k + 1, page, threshold,
                                         Append(columns, current_column),
                                         <<block[1], 0, block[3], page.height>>)
            ELSE columns_loop_unextended(sorted_blocks, k + 1, page, threshold,
                                         columns, current_column)

\* The loop of detect_columns over sorted_blocks[k..]: the columns closed so
\* far and the current column.
RECURSIVE columns_loop(_, _, _, _, _, _)
columns_loop(sorted_blocks, k, page, threshold, columns, current_column) ==
    IF k > Len(sorted_blocks) THEN Append(columns, current_column)
    ELSE LET block == sorted_blocks[k]
         IN IF 10 * block[1] > 10 * current_column[3] + threshold * page.width
            THEN columns_loop(sorted_blocks, k + 1, page, threshold,
                              Append(columns, current_column),
                              <<block[1], 0, block[3], page.height>>)
            ELSE columns_loop(sorted_blocks, k + 1, page, threshold, columns,
                              [current_column EXCEPT ![3] = Max(@, block[3])])

\* detect_columns, with the last column never added
detect_columns_unclosed(page, threshold) ==
    IF page.blocks = <<>> THEN <<>>
    ELSE LET sorted_blocks == stable_sort(page.blocks, "x0")
             first == sorted_blocks[1]
             all == columns_loop(sorted_blocks, 2, page, threshold, <<>>,
                                 <<first[1], 0, first[3], page.height>>)
         IN SubSeq(all, 1, Len(all) - 1)

\* detect_columns(page, threshold)
detect_columns(page, threshold) ==
    IF page.blocks = <<>> THEN <<>>
    ELSE LET sorted_blocks == stable_sort(page.blocks, "x0")
             first == sorted_blocks[1]
         IN columns_loop(sorted_blocks, 2, page, threshold, <<>>,
                         <<first[1], 0, first[3], page.height>>)

\* "\n".join(b[4] for b in blocks): b[4] of a block with no text field
\* raises IndexError.
join_block_texts(blocks) ==
    IF \E k \in 1..Len(blocks) : Len(blocks[k]) < 5
    THEN [raised |-> "IndexError", text |-> <<>>]
    ELSE [raised |-> "none",
          text |-> join_lines([k \in 1..Len(blocks) |-> blocks[k][5]])]

\* PDFConverter._extract_columns, with the blocks sorted by x0 alone
_extract_columns_by_x0(page) == join_block_texts(stable_sort(page.blocks, "x0"))

\* PDFConverter._extract_columns(page)
_extract_columns(page) == join_block_texts(stable_sort(page.blocks, "band_x0"))

\* page.get_text(): the plain text of the page, the text of its blocks in
\* the order the document stores them.
page_get_text(page) ==
    Join([k \in 1..Len(page.blocks) |->
             IF Len(page.blocks[k]) < 5 THEN <<>> ELSE page.blocks[k][5]])

\* The body of the loop of extract_text for one page.
extract_page(page, detect_columns_, preserve_style) ==
    LET t == IF detect_columns_ THEN _extract_columns(page)
             ELSE [raised |-> "none", text |-> page_get_text(page)]
    IN IF t.raised # "none" THEN [raised |-> t.raised, text |-> <<>>]
       ELSE [raised |-> "none", text |-> normalize_text(t.text, preserve_style)]

\* The end of extract_text: text_by_page when the loop body raised on no
\* page, the exception of the failing page otherwise.
text_by_page_or_raise(texts) ==
    IF \E k \in 1..Len(texts) : texts[k].raised # "none"
    THEN [raised |-> "IndexError", text_by_page |-> <<>>]
    ELSE [raised |-> "none", text_by_page |-> [k \in 1..Len(texts) |-> texts[k].text]]

\* PDFConverter.extract_text, leaving out the pages without text
extract_text_nonempty(self, detect_columns_, preserve_style) ==
    LET texts == [k \in 1..Len(self.pages) |->
                     extract_page(self.pages[k], detect_columns_, preserve_style)]
        kept == SelectSeq(texts, LAMBDA t : t.text # <<>>)
    IN IF \E k \in 1..Len(texts) : texts[k].raised # "none"
       THEN [raised |-> "IndexError", text_by_page |-> <<>>]
       ELSE [raised |-> "none", text_by_page |-> [k \in 1..Len(kept) |-> kept[k].text]]

\* PDFConverter.extract_text(detect_columns, preserve_style): the text of
\* every page, or the exception the first failing page raises.
extract_text(self, detect_columns_, preserve_style) ==
    text_by_page_or_raise([k \in 1..Len(self.pages) |->
        extract_page(self.pages[k], detect_columns_, preserve_style)])

(***************************************************************************)
(* converter.py: PDFConverter.__init__ and batch_convert                   *)
(*                                                                         *)
(* The file at pdf_path is [path, kind, needs_pass, password, reading,     *)
(* title, pages, outline, images]: kind tells whether the path exists and  *)
(* fitz.open accepts it, reading names the step at which reading the       *)
(* document fails ("ok" when none does). Paths and format names are        *)
(* sequences of characters or path components.                             *)
(***************************************************************************)
NoConverter == [state |-> "none"]
NoFs == [kind |-> "none"]

\* bool(password) of an optional string
truthy(password) == password # Absent /\ password[1] # ""

\* PDFConverter._extract_metadata: the fields that are not empty or zero
_extract_metadata(doc) ==
    (IF doc.title = "" THEN <<>> ELSE << <<"title", doc.title>> >>)
        \o (IF Len(doc.pages) = 0 THEN <<>> ELSE << <<"page_count", Len(doc.pages)>> >>)

\* utils.extract_images(doc): an exception of page.get_images is logged and
\* the images found until then (here none) are returned.
extract_images(doc) == IF doc.reading = "images" THEN <<>> ELSE doc.images

\* utils.get_toc(doc): an exception of doc.get_toc is logged and the empty
\* list returned.
doc_get_toc(doc) == IF doc.reading = "toc" THEN <<>> ELSE get_toc(doc.outline)

\* The object __init__ leaves after reading the document.
loaded(doc) ==
    [state |-> "open", pdf_path |-> doc.path, metadata |-> _extract_metadata(doc),
     pages |-> doc.pages, images |-> extract_images(doc), toc |-> doc_get_toc(doc)]

\* PDFConverter.__init__, taking an encrypted document for loaded whatever
\* the answer of authenticate
PDFConverter__init__unchecked(file, password) ==
    IF file.kind = "missing" THEN [raised |-> "FileNotFoundError", self |-> NoConverter]
    ELSE IF file.kind = "not_pdf" THEN [raised |-> "ValueError", self |-> NoConverter]
    ELSE IF file.needs_pass /\ ~truthy(password)
         THEN [raised |-> "ValueError", self |-> NoConverter]
    ELSE IF file.reading \in {"metadata", "pages"}
         THEN [raised |-> "ValueError", self |-> NoConverter]
    ELSE [raised |-> "none", self |-> loaded(file)]

\* PDFConverter.__init__(pdf_path, password): the object, or the exception
\* that leaves the caller without one. Every exception raised after
\* os.path.exists is caught and raised again as ValueError.
PDFConverter__init__(file, password) ==
    IF file.kind = "missing" THEN [raised |-> "FileNotFoundError", self |-> NoConverter]
    ELSE IF file.kind = "not_pdf" THEN [raised |-> "ValueError", self |-> NoConverter]
    ELSE IF file.needs_pass /\ truthy(password) /\ password[1] # file.password
         THEN [raised |-> "ValueError", self |-> NoConverter]
    ELSE IF file.needs_pass /\ ~truthy(password)
         THEN [raised |-> "ValueError", self |-> NoConverter]
    ELSE IF file.reading \in {"metadata", "pages"}
         THEN [raised |-> "ValueError", self |-> NoConverter]
    ELSE [raised |-> "none", self |-> loaded(file)]

\* str.lower()
UpperCase == <<"A", "B", "C", "D", "E", "F", "G", "H", "I", "J", "K", "L", "M",
               "N", "O", "P", "Q", "R", "S", "T", "U", "V", "W", "X", "Y", "Z">>
LowerCase == <<"a", "b", "c", "d", "e", "f", "g", "h", "i", "j", "k", "l", "m",
               "n", "o", "p", "q", "r", "s", "t", "u", "v", "w", "x", "y", "z">>
lower_char(c) ==
    IF \E k \in 1..Len(UpperCase) : UpperCase[k] = c
    THEN LowerCase[CHOOSE k \in 1..Len(UpperCase) : UpperCase[k] = c]
    ELSE c
lower(s) == [k \in 1..Len(s) |-> lower_char(s[k])]

\* str.strip('.')
RECURSIVE strip_dots(_)
strip_dots(s) ==
    IF s = <<>> THEN <<>>
    ELSE IF Head(s) = "." THEN strip_dots(Tail(s))
    ELSE IF s[Len(s)] = "." THEN strip_dots(SubSeq(s, 1, Len(s) - 1))
    ELSE s

\* os.path.basename(path): what follows the last separator
RECURSIVE basename(_)
basename(path) ==
    IF \E k \in 1..Len(path) : path[k] = "/" THEN basename(Tail(path)) ELSE path

\* os.path.splitext(name)[0]: the name up to its last dot, the dots the name
\* begins with not counted
splitext_root(name) ==
    LET dots == {k \in 1..Len(name) :
                    name[k] = "." /\ \E j \in 1..(k - 1) : name[j] # "."}
    IN IF dots = {} THEN name
       ELSE SubSeq(name, 1, (CHOOSE k \in dots : \A j \in dots : j <= k) - 1)

\* os.path.join(a, b) for a relative b
path_join(a, b) ==
    IF a = <<>> THEN b
    ELSE IF a[Len(a)] = "/" THEN a \o b
    ELSE a \o <<"/">> \o b

\* output_paths[fmt] = path: a dict keeps a key where it was first inserted
dict_set(d, key, value) ==
    IF \E k \in 1..Len(d) : d[k][1] = key
    THEN [k \in 1..Len(d) |-> IF d[k][1] = key THEN <<key, value>> ELSE d[k]]
    ELSE Append(d, <<key, value>>)

SupportedFormats ==
    {<<"e", "p", "u", "b">>, <<"d", "o", "c", "x">>, <<"h", "t", "m", "l">>,
     <<"t", "x", "t">>, <<"m", "d">>, <<"m", "o", "b", "i">>}

\* The try block of batch_convert for one format: the to_<format> method
\* returns the output path or raises what the writer raises, and a format
\* outside the six raises ValueError.
convert_one(env, fmt, output_path) ==
    IF fmt \notin SupportedFormats THEN [raised |-> "ValueError", path |-> <<>>]
    ELSE IF fmt \in env.failing THEN [raised |-> "ValueError", path |-> <<>>]
    ELSE [raised |-> "none", path |-> output_path]

\* The loop of batch_convert over formats[k..]: the dict, and the formats
\* handed to a writer, in order.
RECURSIVE batch_loop(_, _, _, _, _, _, _)
batch_loop(env, output_dir, base_filename, formats, k, output_paths, converted) ==
    IF k > Len(formats) THEN [output_paths |-> output_paths, converted |-> converted]
    ELSE LET fmt == strip_dots(lower(formats[k]))
             output_path == path_join(output_dir, base_filename \o <<".">> \o fmt)
             r == convert_one(env, fmt, output_path)
         IN IF r.raised = "none"
            THEN batch_loop(env, output_dir, base_filename, formats, k + 1,
                            dict_set(output_paths, fmt, r.path), Append(converted, fmt))
            ELSE batch_loop(env, output_dir, base_filename, formats, k + 1,
                            output_paths, converted)

\* PDFConverter.batch_convert, giving up at the first format that fails
batch_convert_stopping(self, env, output_dir, formats) ==
    IF ~env.writable
    THEN [raised |-> "OSError", output_paths |-> <<>>, converted |-> <<>>]
    ELSE LET bad == {k \in 1..Len(formats) :
                        convert_one(env, strip_dots(lower(formats[k])), <<>>).raised # "none"}
             upto == IF bad = {} THEN Len(formats)
                     ELSE (CHOOSE k \in bad : \A j \in bad : k <= j) - 1
             r == batch_loop(env, output_dir, splitext_root(basename(self.pdf_path)),
                             SubSeq(formats, 1, upto), 1, <<>>, <<>>)
         IN [raised |-> "none", output_paths |-> r.output_paths, converted |-> r.converted]

\* PDFConverter.batch_convert(output_dir, formats): os.makedirs is outside
\* the try block, its exception reaches the caller.
batch_convert(self, env, output_dir, formats) ==
    IF ~env.writable
    THEN [raised |-> "OSError", output_paths |-> <<>>, converted |-> <<>>]
    ELSE LET r == batch_loop(env, output_dir, splitext_root(basename(self.pdf_path)),
                             formats, 1, <<>>, <<>>)
         IN [raised |-> "none", output_paths |-> r.output_paths, converted |-> r.converted]

(***************************************************************************)
(* formats.py: the convert methods of the format writers; converter.py:    *)
(* to_epub, to_docx, to_html, to_text, to_markdown, to_mobi                *)
(*                                                                         *)
(* The environment of a writer says whether the file at the output path    *)
(* can be written, how the probe 'ebook-convert --version' ends and how    *)
(* the run of ebook-convert ends, and holds the files written so far. A    *)
(* file is [path, format, sections], a section [title, pages, content].    *)
(* The outcome of a try block is [raised, path, sections, files, steps].   *)
(***************************************************************************)
Section(title, idx, content) == [title |-> title, pages |-> idx, content |-> content]
Written(path, format, sections) == [path |-> path, format |-> format, sections |-> sections]
Failed(exception, env, steps) ==
    [raised |-> exception, path |-> <<>>, sections |-> <<>>, files |-> env.files,
     steps |-> steps]

\* The loop over the outline of the DOCX, HTML, text and Markdown writers,
\* from the entry with 0-based index i on: every entry gives a section.
RECURSIVE section_loop(_, _, _, _)
section_loop(pdf_toc_, tbp, i, acc) ==
    IF i >= Len(pdf_toc_) THEN acc
    ELSE LET title == pdf_toc_[i + 1][2]
             page == pdf_toc_[i + 1][3]
             next_page == IF i + 1 < Len(pdf_toc_) THEN pdf_toc_[i + 2][3] ELSE Len(tbp)
             idx == SliceIdx(Len(tbp), page - 1, next_page - 1)
             section_content == Join([k \in 1..Len(idx) |-> tbp[idx[k]]])
         IN section_loop(pdf_toc_, tbp, i + 1,
                         Append(acc, Section(title, idx, section_content)))

\* if has_toc: ... else: ... of these writers: without outline every page
\* is a section of its own.
writer_sections(pdf_toc_, tbp) ==
    IF pdf_toc_ # <<>> THEN section_loop(pdf_toc_, tbp, 0, <<>>)
    ELSE [k \in 1..Len(tbp) |-> Section("Page " \o ToString(k), <<k>>, tbp[k])]

\* doc.save(output_path), open(output_path, 'w') and f.write(...),
\* epub.write_epub(output_path, book, {}), shutil.copy2(src, output_path)
write_file(env, output_path, format, sections, steps) ==
    IF ~env.writable THEN Failed("OSError", env, Append(steps, "write"))
    ELSE [raised |-> "none", path |-> output_path, sections |-> sections,
          files |-> {f \in env.files : f.path # output_path}
                        \cup {Written(output_path, format, sections)},
          steps |-> Append(steps, "write")]

\* kwargs.get('detect_columns', True)
get_detect_columns(kw) ==
    IF "detect_columns" \in DOMAIN kw THEN kw.detect_columns ELSE TRUE

\* The try block of the convert method of the DOCX, HTML, text and
\* Markdown writers: text_by_page is what extract_text returned or raised.
plain_convert(env, format, output_path, text_by_page_, pdf_toc_) ==
    IF text_by_page_.raised # "none"
    THEN Failed(text_by_page_.raised, env, <<"extract_text">>)
    ELSE write_file(env, output_path, format,
                    writer_sections(pdf_toc_, text_by_page_.text_by_page),
                    <<"extract_text">>)
plain_try(self, env, format, output_path, kw) ==
    CHOOSE r \in {plain_convert(env, format, output_path, t, self.toc) :
                     t \in {extract_text(self, get_detect_columns(kw), TRUE)}} : TRUE

\* The try block of EPUBConverter.convert: the chapters are its sections.
chapter_sections(chapters_) ==
    [k \in 1..Len(chapters_) |->
        Section(chapters_[k].title, chapters_[k].pages, chapters_[k].content)]
epub_book(env, output_path, book) ==
    IF book.result # "returned" THEN Failed("re.error", env, <<"extract_text">>)
    ELSE write_file(env, output_path, "epub", chapter_sections(book.chapters),
                    <<"extract_text">>)
epub_convert(env, output_path, text_by_page_, pdf_toc_, kw) ==
    IF text_by_page_.raised # "none"
    THEN Failed(text_by_page_.raised, env, <<"extract_text">>)
    ELSE CHOOSE r \in {epub_book(env, output_path, book) :
                          book \in {convert(text_by_page_.text_by_page, pdf_toc_, kw)}} : TRUE
epub_try(self, env, output_path, kw) ==
    CHOOSE r \in {epub_convert(env, output_path, t, self.toc, kw) :
                     t \in {extract_text(self, get_detect_columns(kw), TRUE)}} : TRUE

\* except Exception as e: raise ValueError(...)
except_Exception(r) == IF r.raised = "none" THEN r ELSE [r EXCEPT !.raised = "ValueError"]

\* MOBIConverter._check_calibre_available: a probe that cannot be run or
\* runs out of time counts as a tool that is not there.
_check_calibre_available(env) == env.probe = "ok"

\* MOBIConverter._convert_with_calibre: what the run of ebook-convert
\* leaves, "nonzero" when it cannot write its output.
_convert_with_calibre(env, epub, mobi_path, steps) ==
    LET ended == IF env.writable THEN env.run ELSE "nonzero"
    IN IF ended \in {"nonzero", "timeout"}
       THEN Failed("ValueError", env, Append(steps, "ebook-convert"))
       ELSE [raised |-> "none", path |-> mobi_path, sections |-> epub.sections,
             files |-> IF ended = "no_output" THEN env.files
                       ELSE {f \in env.files : f.path # mobi_path}
                                \cup {Written(mobi_path, "mobi", epub.sections)},
             steps |-> Append(steps, "ebook-convert")]

TempEpub == <<"tmp", "/", "temp", ".", "epub">>

\* shutil.copy2(epub_path, output_path): the file at the output path is the
\* EPUB as it was written.
copy2(env, epub, output_path, steps) ==
    IF ~env.writable THEN Failed("OSError", env, Append(steps, "copy"))
    ELSE [raised |-> "none", path |-> output_path, sections |-> epub.sections,
          files |-> {f \in env.files : f.path # output_path}
                        \cup {Written(output_path, "epub", epub.sections)},
          steps |-> Append(steps, "copy")]

\* os.path.exists(output_path)
exists(files, output_path) == \E f \in files : f.path = output_path

\* if os.path.exists(output_path): return output_path
\* else: raise ValueError("Failed to create output file")
return_if_exists(env, output_path, made) ==
    IF made.raised # "none" THEN made
    ELSE IF exists(made.files, output_path) THEN made
    ELSE Failed("ValueError", env, made.steps)

\* The copy of the EPUB made also after a run of ebook-convert that failed
copy2_after_failure(env, epub, output_path, ran) ==
    IF ran.raised = "none" THEN ran ELSE copy2(env, epub, output_path, ran.steps)

\* The try block of MOBIConverter.convert after the EPUB, falling back on
\* the copy when ebook-convert fails
mobi_from_epub_with_fallback(env, output_path, epub) ==
    IF epub.raised # "none" THEN Failed(epub.raised, env, <<"epub">>)
    ELSE CHOOSE r \in {return_if_exists(env, output_path, made) :
                made \in {IF _check_calibre_available(env)
                          THEN copy2_after_failure(env, epub, output_path,
                                  _convert_with_calibre(env, epub, output_path,
                                                        <<"epub", "probe">>))
                          ELSE copy2(env, epub, output_path, <<"epub", "probe">>)}} : TRUE

\* The try block of MOBIConverter.convert after the EPUB: ebook-convert
\* runs on it or it is copied, and the output path is returned if a file is
\* there.
mobi_from_epub(env, output_path, epub) ==
    IF epub.raised # "none" THEN Failed(epub.raised, env, <<"epub">>)
    ELSE CHOOSE r \in {return_if_exists(env, output_path, made) :
                made \in {IF _check_calibre_available(env)
                          THEN _convert_with_calibre(env, epub, output_path,
                                                     <<"epub", "probe">>)
                          ELSE copy2(env, epub, output_path, <<"epub", "probe">>)}} : TRUE

\* The try block of MOBIConverter.convert: the EPUB goes to a temporary
\* directory first.
mobi_try(self, env, output_path, kw) ==
    CHOOSE r \in {mobi_from_epub(env, output_path, epub) :
                     epub \in {epub_try(self, [env EXCEPT !.writable = TRUE],
                                        TempEpub, kw)}} : TRUE

\* to_text, the exceptions of the writer reaching the caller as they are
to_text_uncaught(self, env, output_path, kw) ==
    plain_try(self, env, "txt", output_path, kw)

\* PDFConverter.to_epub, to_docx, to_html, to_text, to_markdown, to_mobi:
\* the writer is made and its convert method called.
to_epub(self, env, output_path, kw) == except_Exception(epub_try(self, env, output_path, kw))
to_docx(self, env, output_path, kw) ==
    except_Exception(plain_try(self, env, "docx", output_path, kw))
to_html(self, env, output_path, kw) ==
    except_Exception(plain_try(self, env, "html", output_path, kw))
to_text(self, env, output_path, kw) ==
    except_Exception(plain_try(self, env, "txt", output_path, kw))
to_markdown(self, env, output_path, kw) ==
    except_Exception(plain_try(self, env, "md", output_path, kw))
to_mobi(self, env, output_path, kw) == except_Exception(mobi_try(self, env, output_path, kw))

(***************************************************************************)
(* cli.py: batch_convert_files                                             *)
(*                                                                         *)
(* The environment of a batch run is [found, can_make_dirs, files]: the    *)
(* files of the working directory in the order glob gives them, each with  *)
(* what its writers will find, whether the output directory can be made,   *)
(* and the files written so far. args is [inputs, output_dir, format,      *)
(* password, detect_columns]. A line of the log is [what, path, fmt].      *)
(***************************************************************************)
\* ('epub', 'docx', 'html', 'txt', 'md', 'mobi')
CliFormats ==
    {<<"e", "p", "u", "b">>, <<"d", "o", "c", "x">>, <<"h", "t", "m", "l">>,
     <<"t", "x", "t">>, <<"m", "d">>, <<"m", "o", "b", "i">>}
LogLine(what, path, fmt) == [what |-> what, path |-> path, fmt |-> fmt]

\* text.split(sep), sep one character
RECURSIVE split(_, _, _)
split(text, sep, part) ==
    IF text = <<>> THEN <<part>>
    ELSE IF Head(text) = sep THEN <<part>> \o split(Tail(text), sep, <<>>)
    ELSE split(Tail(text), sep, Append(part, Head(text)))

\* [fmt.strip().lower() for fmt in args.format.split(',')]
strip_lower_each(parts) == [k \in 1..Len(parts) |-> lower(strip(parts[k]))]
parse_formats(format) == strip_lower_each(split(format, ",", <<>>))

\* str.endswith(suffix)
endswith(s, suffix) ==
    Len(s) >= Len(suffix) /\ SubSeq(s, Len(s) - Len(suffix) + 1, Len(s)) = suffix

\* glob.glob(input_pattern): '*' matches every file of the directory, any
\* other pattern the file of that name.
glob(env, input_pattern) ==
    SelectSeq([k \in 1..Len(env.found) |-> env.found[k].path],
              LAMBDA f : input_pattern = <<"*">> \/ f = input_pattern)

\* The loop that collects input_files
collect_input_files(env, inputs) ==
    Join([k \in 1..Len(inputs) |->
             SelectSeq(glob(env, inputs[k]),
                       LAMBDA f : endswith(lower(f), <<".", "p", "d", "f">>))])

\* The file at a path glob gave.
file_at(env, path) == env.found[CHOOSE k \in 1..Len(env.found) : env.found[k].path = path]

\* options of the calls of the writers
cli_options(args) ==
    [toc_depth |-> Absent, chapter_pattern |-> Absent, strip_text |-> <<>>,
     detect_columns |-> args.detect_columns]

\* if fmt == 'epub': converter.to_epub(output_path, **options) elif ...
to_format(self, env, fmt, output_path, options) ==
    CASE fmt = <<"e", "p", "u", "b">> -> to_epub(self, env, output_path, options)
      [] fmt = <<"d", "o", "c", "x">> -> to_docx(self, env, output_path, options)
      [] fmt = <<"h", "t", "m", "l">> -> to_html(self, env, output_path, options)
      [] fmt = <<"t", "x", "t">> -> to_text(self, env, output_path, options)
      [] fmt = <<"m", "d">> -> to_markdown(self, env, output_path, options)
      [] fmt = <<"m", "o", "b", "i">> -> to_mobi(self, env, output_path, options)

\* One turn of the loop over the formats: the files and the log after it.
format_step(input_path, fmt, r, acc) ==
    [acc EXCEPT !.files = r.files,
                !.attempts = Append(@, [path |-> input_path, fmt |-> fmt,
                                        ok |-> r.raised = "none"]),
                !.log = IF r.raised = "none" THEN @
                        ELSE Append(@, LogLine("format_error", input_path, fmt))]

\* for fmt in formats: ... except Exception as format_error: logger.error
RECURSIVE format_loop(_, _, _, _, _, _, _)
format_loop(self, file, input_path, args, formats, k, acc) ==
    IF k > Len(formats) THEN acc
    ELSE format_loop(self, file, input_path, args, formats, k + 1,
            format_step(input_path, formats[k],
                to_format(self, [file EXCEPT !.files = acc.files], formats[k],
                          path_join(args.output_dir,
                                    splitext_root(basename(input_path))
                                        \o <<".">> \o formats[k]),
                          cli_options(args)),
                acc))

\* The body of the loop over input_files: opened is what the constructor
\* of the converter gave.
file_step(opened, file, input_path, args, formats, acc) ==
    IF opened.raised # "none"
    THEN [acc EXCEPT !.opened = Append(@, [path |-> input_path, ok |-> FALSE]),
                     !.log = Append(@, LogLine("file_error", input_path, <<>>))]
    ELSE [format_loop(opened.self, file, input_path, args, formats, 1,
                      [acc EXCEPT !.opened = Append(@, [path |-> input_path, ok |-> TRUE])])
             EXCEPT !.success_count = @ + 1]

\* The loop over input_files, ended by the first file that cannot be opened
RECURSIVE file_loop_stopping(_, _, _, _, _, _)
file_loop_stopping(env, args, formats, input_files, k, acc) ==
    IF k > Len(input_files) THEN acc
    ELSE IF PDFConverter__init__(file_at(env, input_files[k]), args.password).raised # "none"
    THEN file_step(PDFConverter__init__(file_at(env, input_files[k]), args.password),
                   file_at(env, input_files[k]), input_files[k], args, formats, acc)
    ELSE file_loop_stopping(env, args, formats, input_files, k + 1,
            file_step(PDFConverter__init__(file_at(env, input_files[k]), args.password),
                      file_at(env, input_files[k]), input_files[k], args, formats, acc))

\* for input_path in input_files: try: ... except Exception as file_error
RECURSIVE file_loop(_, _, _, _, _, _)
file_loop(env, args, formats, input_files, k, acc) ==
    IF k > Len(input_files) THEN acc
    ELSE file_loop(env, args, formats, input_files, k + 1,
            file_step(PDFConverter__init__(file_at(env, input_files[k]), args.password),
                      file_at(env, input_files[k]), input_files[k], args, formats, acc))

NothingDone(env) ==
    [files |-> env.files, opened |-> <<>>, attempts |-> <<>>, log |-> <<>>,
     success_count |-> 0]
Exit(exit_code, done) ==
    [exit_code |-> exit_code, files |-> done.files, opened |-> done.opened,
     attempts |-> done.attempts, log |-> done.log]

\* return 0 if success_count > 0 else 1
exit_of(done) == Exit(IF done.success_count > 0 THEN 0 ELSE 1, done)

\* batch_convert_files(args): the exit code, and what was opened, converted
\* and logged on the way.
batch_convert_files(env, args) ==
    IF ~env.can_make_dirs
    THEN Exit(1, [NothingDone(env) EXCEPT !.log = <<LogLine("batch_error", <<>>, <<>>)>>])
    ELSE IF \E k \in 1..Len(parse_formats(args.format)) :
                parse_formats(args.format)[k] \notin CliFormats
    THEN Exit(1, [NothingDone(env) EXCEPT !.log =
            <<LogLine("unsupported_format", <<>>,
                      parse_formats(args.format)[
                          CHOOSE k \in 1..Len(parse_formats(args.format)) :
                              /\ parse_formats(args.format)[k] \notin CliFormats
                              /\ \A j \in 1..(k - 1) :
                                    parse_formats(args.format)[j] \in CliFormats])>>])
    ELSE IF collect_input_files(env, args.inputs) = <<>>
    THEN Exit(1, [NothingDone(env) EXCEPT !.log = <<LogLine("no_input", <<>>, <<>>)>>])
    ELSE exit_of(file_loop(env, args, parse_formats(args.format),
                           collect_input_files(env, args.inputs), 1, NothingDone(env)))

(***************************************************************************)
(* Inputs of the text extraction and of the converter                      *)
(***************************************************************************)
\* Every text over seven characters: a small and a capital letter, the
\* hyphen, the two kinds of whitespace, a dialogue marker and a full stop;
\* and the texts that begin with a letter and a combining accent.
NormChars == {"a", "A", "-", " ", "\n", "\"", "."}
NormTexts ==
    SeqsUpTo(NormChars, MaxNormLen)
        \cup {<<"a", "u0301">> \o t : t \in SeqsUpTo(NormChars, 2)}

\* Blocks in two columns and three rows, the first row above the page, and a
\* block with no text field.
LayoutBlocks ==
    {<<0, -10, 20, 0, <<"a">> >>, <<0, 10, 30, 20, <<"b", "\n">> >>,
     <<0, 30, 20, 40, <<"f", "-">> >>, <<60, -10, 80, 0, <<"i">> >>,
     <<60, 10, 90, 20, <<" ", "l">> >>, <<60, 30, 80, 40, <<>> >>,
     <<0, 10, 20, 20>>}
PageOfBlocks(blocks) == [blocks |-> blocks, width |-> 100, height |-> 200]
LayoutPages == {PageOfBlocks(bs) : bs \in SeqsUpTo(LayoutBlocks, MaxBlocks)}
Thresholds == {DefaultThreshold, 7, -3}

\* The pages of the documents: no block or one, two blocks of one row given
\* right to left, and two rows given bottom up.
DocPages ==
    {PageOfBlocks(bs) : bs \in SeqsUpTo(LayoutBlocks, 1)}
        \cup {PageOfBlocks(<< <<60, 10, 90, 20, <<" ", "l">> >>,
                              <<0, 10, 30, 20, <<"b", "\n">> >> >>),
              PageOfBlocks(<< <<0, 30, 20, 40, <<"f", "-">> >>,
                              <<0, -10, 20, 0, <<"a">> >> >>)}
Documents == SeqsUpTo(DocPages, MaxDocPages)

PdfPaths ==
    {<<"book">>, <<"in", "/", "book", ".", "pdf">>, <<"my", ".", "book", ".", "pdf">>}
FilePassword == "s3cret"
Passwords == {Absent, Given(""), Given(FilePassword), Given("guess")}
Readings == {"ok", "metadata", "pages", "images", "toc"}

\* What is at pdf_path, and what the writers will find: whether the output
\* directory can be made and the output files written, the formats whose
\* writer raises, how the probe and the run of ebook-convert end, and the
\* files written.
File(path, kind, needs_pass, reading, title, pages_) ==
    [path |-> path, kind |-> kind, needs_pass |-> needs_pass,
     password |-> FilePassword, reading |-> reading, title |-> title,
     pages |-> pages_, outline |-> << <<1, "Intro", 1>> >>, images |-> <<1>>,
     writable |-> TRUE, failing |-> {}, probe |-> "not_found", run |-> "ok",
     files |-> {}]
Files ==
    {File(<<"book">>, k, FALSE, "ok", "", <<>>) : k \in {"missing", "not_pdf"}}
        \cup {File(<<"book">>, "pdf", np, rd, t, d) :
                 np \in BOOLEAN, rd \in Readings, t \in {"", "T"}, d \in Documents}
GoodFile(path, pages_) == File(path, "pdf", FALSE, "ok", "T", pages_)

RequestedFormats ==
    {<<"t", "x", "t">>, <<".", "T", "X", "T", ".">>, <<"M", "d">>,
     <<"p", "d", "f">>, <<"m", ".", "d">>}
OutputDirs == {<<"out">>, <<"books", "/", "out">>}
FailingWriters == SUBSET {<<"t", "x", "t">>, <<"m", "d">>}

\* The documents handed to the writers: the first pages of a cycle of three,
\* the first with a blank line inside its text, and a document whose only
\* page has a block with no text field.
WriterPageCycle ==
    <<PageOfBlocks(<< <<0, 10, 30, 20, <<"A", "\n", "\n", "b">> >> >>),
      PageOfBlocks(<< <<0, -10, 20, 0, <<"a">> >> >>),
      PageOfBlocks(<< <<60, 10, 90, 20, <<" ", "l">> >>,
                      <<0, 10, 30, 20, <<"b", "\n">> >> >>)>>
WriterPage(p) == WriterPageCycle[((p - 1) % Len(WriterPageCycle)) + 1]
WriterDocuments ==
    {[p \in 1..n |-> WriterPage(p)] : n \in 0..MaxDocPages}
        \cup {<<PageOfBlocks(<< <<0, 10, 20, 20>> >>)>>}
\* The outlines of a document: entries with a title or with a placeholder
\* for one, each on a page of the document.
WriterOutlines(doc) ==
    SeqsUpTo({<<1, t, p>> : t \in {"Intro", " "}, p \in 1..Max(Len(doc), 1)}, MaxToc)
WriterEnvs ==
    {[probe |-> pr, run |-> "ok"] : pr \in {"ok", "nonzero", "timeout", "not_found"}}
        \cup {[probe |-> "ok", run |-> rn] : rn \in {"nonzero", "timeout", "no_output"}}
OutputPaths == {<<"out", "/", "book">>, <<"book", ".", "out">>}
WriterKwargs ==
    {[toc_depth |-> Absent, chapter_pattern |-> Absent, strip_text |-> st] :
        st \in {<<>>, << <<"(">> >>}}

\* The files there before the call: none, or an older file at one of the
\* output paths.
FilesBefore == {{}, {Written(<<"book", ".", "out">>, "mobi", <<>>)}}

\* The files of the working directory of a batch run: a document of one
\* page whose output can or cannot be written, a file that is no PDF, a
\* document that asks for the password, a document with a block without a
\* text field, and a text file. No two files of a directory share a path.
PathA == <<"a", ".", "p", "d", "f">>
PathB == <<"i", "n", "/", "b", ".", "P", "D", "F">>
PathC == <<"c", ".", "t", "x", "t">>
OnePage == <<PageOfBlocks(<< <<0, 10, 30, 20, <<"a">> >> >>)>>
NoTextPage == <<PageOfBlocks(<< <<0, 10, 20, 20>> >>)>>
CliFiles ==
    {GoodFile(PathA, OnePage),
     [GoodFile(PathA, OnePage) EXCEPT !.writable = FALSE],
     [GoodFile(PathB, OnePage) EXCEPT !.kind = "not_pdf"],
     [GoodFile(PathB, OnePage) EXCEPT !.needs_pass = TRUE],
     GoodFile(PathB, NoTextPage),
     GoodFile(PathC, OnePage)}
Directories ==
    {d \in SeqsUpTo(CliFiles, MaxInputs) :
        \A j, k \in 1..Len(d) : j # k => d[j].path # d[k].path}
InputPatterns == {<< <<"*">> >>, <<PathA>>, <<PathB, <<"*">> >>, <<PathC>>}
FormatLists ==
    {<<"t", "x", "t">>, <<"e", "p", "u", "b", ",", " ", "D", "O", "C", "X">>,
     <<"h", "t", "m", "l", ",", "m", "d">>, <<"m", "o", "b", "i">>,
     <<"t", "x", "t", ",", "p", "d", "f">>, <<>>}
CliArgs ==
    {[inputs |-> i, output_dir |-> <<"out">>, format |-> f, password |-> pw,
      detect_columns |-> dc] :
        i \in InputPatterns, f \in FormatLists, pw \in {Absent, Given(FilePassword)},
        dc \in BOOLEAN}

(***************************************************************************)
(* Actions of the text extraction and of the converter                     *)
(***************************************************************************)
ConvIdle == fs = NoFs /\ converter = NoConverter /\ call = NoCall

\* normalize_text(text, preserve_style)
NormalizeText(text, preserve_style) ==
    /\ call = NoCall
    /\ call' = [op |-> "normalize_text", text |-> text,
                preserve_style |-> preserve_style,
                result |-> normalize_text(text, preserve_style)]
    /\ UNCHANGED <<fs, converter, det_vars, epub_vars>>

\* detect_columns(page, threshold)
DetectColumns(page, threshold) ==
    /\ call = NoCall
    /\ call' = [op |-> "detect_columns", page |-> page, threshold |-> threshold,
                result |-> detect_columns(page, threshold)]
    /\ UNCHANGED <<fs, converter, det_vars, epub_vars>>

\* self._extract_columns(page)
ExtractColumns(page) ==
    /\ call = NoCall
    /\ \E r \in {_extract_columns(page)} :
          call' = [op |-> "_extract_columns", page |-> page,
                   raised |-> r.raised, result |-> r.text]
    /\ UNCHANGED <<fs, converter, det_vars, epub_vars>>

\* converter = PDFConverter(pdf_path, password)
NewPDFConverter(password) ==
    /\ converter = NoConverter /\ call = NoCall
    /\ \E r \in {PDFConverter__init__(fs, password)} :
          /\ converter' = r.self
          /\ call' = [op |-> "__init__", password |-> password, raised |-> r.raised]
    /\ UNCHANGED <<fs, det_vars, epub_vars>>

\* converter.extract_text(detect_columns=..., preserve_style=...)
ExtractText(detect_columns_, preserve_style) ==
    /\ converter # NoConverter /\ call = NoCall
    /\ \E r \in {extract_text(converter, detect_columns_, preserve_style)} :
          call' = [op |-> "extract_text", detect_columns |-> detect_columns_,
                   preserve_style |-> preserve_style,
                   raised |-> r.raised, result |-> r.text_by_page]
    /\ UNCHANGED <<fs, converter, det_vars, epub_vars>>

\* converter.batch_convert(output_dir, formats)
BatchConvert(output_dir, formats) ==
    /\ converter # NoConverter /\ call = NoCall
    /\ \E r \in {batch_convert(converter, fs, output_dir, formats)} :
          call' = [op |-> "batch_convert", output_dir |-> output_dir,
                   formats |-> formats, raised |-> r.raised,
                   result |-> r.output_paths, converted |-> r.converted]
    /\ UNCHANGED <<fs, converter, det_vars, epub_vars>>

\* What a call of a to_<format> method leaves: the outcome, and the files.
Converted(op, output_path, r) ==
    /\ call' = [op |-> op, output_path |-> output_path, raised |-> r.raised,
                result |-> r.path, sections |-> r.sections, steps |-> r.steps]
    /\ fs' = [fs EXCEPT !.files = r.files]
    /\ UNCHANGED <<converter, det_vars, epub_vars>>

\* converter.to_epub(output_path, **kw)
ToEpub(output_path, kw) ==
    /\ converter # NoConverter /\ call = NoCall
    /\ \E r \in {to_epub(converter, fs, output_path, kw)} : Converted("to_epub", output_path, r)

\* converter.to_docx(output_path)
ToDocx(output_path, kw) ==
    /\ converter # NoConverter /\ call = NoCall
    /\ \E r \in {to_docx(converter, fs, output_path, kw)} : Converted("to_docx", output_path, r)

\* converter.to_html(output_path)
ToHtml(output_path, kw) ==
    /\ converter # NoConverter /\ call = NoCall
    /\ \E r \in {to_html(converter, fs, output_path, kw)} : Converted("to_html", output_path, r)

\* converter.to_text(output_path)
ToText(output_path, kw) ==
    /\ converter # NoConverter /\ call = NoCall
    /\ \E r \in {to_text(converter, fs, output_path, kw)} : Converted("to_text", output_path, r)

\* converter.to_markdown(output_path)
ToMarkdown(output_path, kw) ==
    /\ converter # NoConverter /\ call = NoCall
    /\ \E r \in {to_markdown(converter, fs, output_path, kw)} :
          Converted("to_markdown", output_path, r)

\* converter.to_mobi(output_path, **kw)
ToMobi(output_path, kw) ==
    /\ converter # NoConverter /\ call = NoCall
    /\ \E r \in {to_mobi(converter, fs, output_path, kw)} : Converted("to_mobi", output_path, r)

\* book-converter batch <inputs> --output-dir <dir> --format <list>
BatchConvertFiles(args) ==
    /\ fs # NoFs /\ call = NoCall
    /\ \E r \in {batch_convert_files(fs, args)} :
          /\ call' = [op |-> "batch_convert_files", args |-> args,
                      exit_code |-> r.exit_code, opened |-> r.opened,
                      attempts |-> r.attempts, log |-> r.log]
          /\ fs' = [fs EXCEPT !.files = r.files]
    /\ UNCHANGED <<converter, det_vars, epub_vars>>

(***************************************************************************)
(* Specifications                                                          *)
(***************************************************************************)
\* The detector alone: one construction, then any calls.
InitDetector == DetIdle /\ EpubIdle /\ pages = <<>> /\ pdf_toc = <<>> /\ ConvIdle
NextDetector ==
    \/ \E p \in Patterns, c \in StyleClasses : NewChapterDetector(p, c)
    \/ \E t \in Texts : FormatChapterOpenings(t)
    \/ \E t \in Texts : ExtractChapterTitles(t)
SpecDetector == InitDetector /\ [][NextDetector]_vars

\* One EPUB conversion of an opened document.
InitEpub == DetIdle /\ EpubIdle /\ OpenDocument /\ ConvIdle
NextEpub == \E kw \in Kwargs : EPUBConvert(kw)
SpecEpub == InitEpub /\ [][NextEpub]_vars

\* normalize_text on its own.
InitNormalize == DetIdle /\ EpubIdle /\ pages = <<>> /\ pdf_toc = <<>> /\ ConvIdle
NextNormalize ==
    /\ call = NoCall
    /\ \E text \in NormTexts, preserve_style \in BOOLEAN :
          NormalizeText(text, preserve_style)
SpecNormalize == InitNormalize /\ [][NextNormalize]_vars

\* The two views of one page: its columns and its text in reading order.
InitLayout == DetIdle /\ EpubIdle /\ pages = <<>> /\ pdf_toc = <<>> /\ ConvIdle
NextLayout ==
    /\ call = NoCall
    /\ \/ \E page \in LayoutPages, threshold \in Thresholds :
             DetectColumns(page, threshold)
       \/ \E page \in LayoutPages : ExtractColumns(page)
SpecLayout == InitLayout /\ [][NextLayout]_vars

\* The construction of a PDFConverter on what is at pdf_path.
InitOpen ==
    /\ DetIdle /\ EpubIdle /\ pages = <<>> /\ pdf_toc = <<>>
    /\ fs \in Files /\ converter = NoConverter /\ call = NoCall
NextOpen == \E password \in Passwords : NewPDFConverter(password)
SpecOpen == InitOpen /\ [][NextOpen]_vars

\* The text extraction of an open converter.
InitExtract ==
    /\ DetIdle /\ EpubIdle /\ pages = <<>> /\ pdf_toc = <<>>
    /\ \E d \in Documents : fs = GoodFile(<<"book">>, d)
    /\ converter = PDFConverter__init__(fs, Absent).self /\ call = NoCall
NextExtract ==
    \E detect_columns_ \in BOOLEAN, preserve_style \in BOOLEAN :
        ExtractText(detect_columns_, preserve_style)
SpecExtract == InitExtract /\ [][NextExtract]_vars

\* One batch conversion by an open converter.
InitBatch ==
    /\ DetIdle /\ EpubIdle /\ pages = <<>> /\ pdf_toc = <<>>
    /\ \E path \in PdfPaths, w \in BOOLEAN, f \in FailingWriters :
          fs = [GoodFile(path, <<>>) EXCEPT !.writable = w, !.failing = f]
    /\ converter = PDFConverter__init__(fs, Absent).self /\ call = NoCall
NextBatch ==
    /\ call = NoCall
    /\ \E output_dir \in OutputDirs, formats \in SeqsUpTo(RequestedFormats, MaxFormats) :
          BatchConvert(output_dir, formats)
SpecBatch == InitBatch /\ [][NextBatch]_vars

\* One conversion to one format by an open converter.
InitWriters ==
    /\ DetIdle /\ EpubIdle /\ pages = <<>> /\ pdf_toc = <<>>
    /\ \E d \in WriterDocuments, w \in BOOLEAN, e \in WriterEnvs, fl \in FilesBefore :
          \E o \in WriterOutlines(d) :
              fs = [GoodFile(<<"book">>, d) EXCEPT !.outline = o, !.writable = w,
                                                   !.probe = e.probe, !.run = e.run,
                                                   !.files = fl]
    /\ converter = PDFConverter__init__(fs, Absent).self /\ call = NoCall
NextWriters ==
    \/ \E output_path \in OutputPaths, kw \in WriterKwargs : ToEpub(output_path, kw)
    \/ \E output_path \in OutputPaths, kw \in WriterKwargs : ToDocx(output_path, kw)
    \/ \E output_path \in OutputPaths, kw \in WriterKwargs : ToHtml(output_path, kw)
    \/ \E output_path \in OutputPaths, kw \in WriterKwargs : ToText(output_path, kw)
    \/ \E output_path \in OutputPaths, kw \in WriterKwargs : ToMarkdown(output_path, kw)
    \/ \E output_path \in OutputPaths, kw \in WriterKwargs : ToMobi(output_path, kw)
SpecWriters == InitWriters /\ [][NextWriters]_vars

\* One batch run of the command line over the files of a directory.
InitCli ==
    /\ DetIdle /\ EpubIdle /\ pages = <<>> /\ pdf_toc = <<>>
    /\ \E d \in Directories, m \in BOOLEAN :
          fs = [kind |-> "dir", found |-> d, can_make_dirs |-> m, files |-> {}]
    /\ converter = NoConverter /\ call = NoCall
NextCli ==
    /\ call = NoCall
    /\ \E args \in CliArgs : BatchConvertFiles(args)
SpecCli == InitCli /\ [][NextCli]_vars


(***************************************************************************)
(* Vocabulary of the properties                                            *)
(***************************************************************************)
Returned == result = "returned"
PageCount == Len(pages)
PageOf(entry) == entry[3]
Range(a, b) == [k \in 1..Max(b - a + 1, 0) |-> a + k - 1]

\* A valid outline of a document of n pages: not empty, every start page in
\* 1..n, start pages non-decreasing.
ValidOutline(outline, n) ==
    /\ outline # <<>>
    /\ \A i \in 1..Len(outline) : PageOf(outline[i]) \in 1..n
    /\ \A i \in 1..(Len(outline) - 1) : PageOf(outline[i]) <= PageOf(outline[i + 1])

\* Every entry has a title of its own: none is empty or a placeholder.
TitledOutline(outline) ==
    \A i \in 1..Len(outline) : outline[i][2] \notin {"", " ", "- ", ZWSP \o " "}

\* An outline with a start page out of 1..n or with start pages out of order.
MalformedOutline(outline, n) ==
    \/ \E i \in 1..Len(outline) : PageOf(outline[i]) \notin 1..n
    \/ \E i \in 1..(Len(outline) - 1) : PageOf(outline[i]) > PageOf(outline[i + 1])

\* The number of sections page p contributes its text to.
Covering(p) ==
    Cardinality({k \in 1..Len(chapters) :
                    \E j \in 1..Len(chapters[k].pages) : chapters[k].pages[j] = p})

\* The sections cover every page of the document exactly once.
ExactCover == \A p \in 1..PageCount : Covering(p) = 1

\* The file of the chapter built for the outline entry with 1-based index i.
EntryFile(i) == "chapter_" \o ToString(i - 1) \o ".xhtml"
ChaptersOfEntry(i) == {k \in 1..Len(chapters) : chapters[k].file_name = EntryFile(i)}
EntryOfChapter(k) ==
    CHOOSE i \in 1..Len(pdf_toc) : chapters[k].file_name = EntryFile(i)

\* The text of pages a..b, concatenated in page order.
TextOfPages(a, b) == Join([k \in 1..Max(b - a + 1, 0) |-> text_by_page[a + k - 1]])

(***************************************************************************)
(* C1: for a document of at least one page and a valid outline, the        *)
(* sections built from the outline partition the pages: every page 1..n    *)
(* contributes its text to exactly one section.                            *)
(* Stated here for the outlines that can be a partition at all: the first  *)
(* entry starts at page 1 and no entry has a skipped title.                *)
(* Refuted by the code: the last entry's slice ends at len(text_by_page)-1, *)
(* so the last page is in no section.                                      *)
(***************************************************************************)
C1_OutlinePartition ==
    (/\ Returned /\ PageCount >= 1
     /\ ValidOutline(pdf_toc, PageCount) /\ TitledOutline(pdf_toc)
     /\ PageOf(pdf_toc[1]) = 1)
    => ExactCover

(***************************************************************************)
(* C2: with a non-empty outline, the section of entry i holds exactly the  *)
(* pages entry[i].startPage .. entry[i+1].startPage - 1, and the section   *)
(* of the last entry the pages startPage .. pageCount, concatenated in     *)
(* page order. Stated for valid outlines without skipped titles and runs   *)
(* without chapter pattern.                                                *)
(* Refuted by the code: the last section stops at page pageCount - 1.      *)
(***************************************************************************)
C2_SectionContent ==
    (/\ Returned /\ ValidOutline(pdf_toc, PageCount) /\ TitledOutline(pdf_toc)
     /\ kwargs.chapter_pattern = Absent)
    => \A k \in 1..Len(chapters) :
          LET i == EntryOfChapter(k)
              first == PageOf(pdf_toc[i])
              last == IF i < Len(pdf_toc) THEN PageOf(pdf_toc[i + 1]) - 1
                      ELSE PageCount
          IN /\ chapters[k].pages = Range(first, last)
             /\ chapters[k].content = TextOfPages(first, last)

(***************************************************************************)
(* C3: without an outline, a document of n > 30 pages is cut into          *)
(* consecutive chunks of c = max(10, n div 20) pages (the last possibly    *)
(* shorter), ceil(n/c) of them, the k-th titled "Chapter k"; a document of *)
(* n <= 30 pages gives n sections, the k-th holding page k and titled      *)
(* "Page k". Either way pages 1..n are covered exactly once.               *)
(***************************************************************************)
C3_FallbackChunks ==
    (Returned /\ pdf_toc = <<>>)
    => LET n == PageCount
           c == Max(10, n \div 20)
       IN /\ IF n > 30
             THEN /\ Len(chapters) = (n + c - 1) \div c
                  /\ \A k \in 1..Len(chapters) :
                        /\ chapters[k].title = "Chapter " \o ToString(k)
                        /\ chapters[k].pages = Range((k - 1) * c + 1, Min(k * c, n))
                        /\ chapters[k].content = TextOfPages((k - 1) * c + 1, Min(k * c, n))
             ELSE /\ Len(chapters) = n
                  /\ \A k \in 1..n :
                        /\ chapters[k].title = "Page " \o ToString(k)
                        /\ chapters[k].pages = <<k>>
                        /\ chapters[k].content = text_by_page[k]
          /\ ExactCover

\* A document of 45 pages without outline was cut into 5 chapters of 10 pages,
\* the last of 5.
C3_Witness ==
    /\ Returned /\ pdf_toc = <<>> /\ PageCount = 45
    /\ Len(chapters) = 5 /\ Len(chapters[1].pages) = 10 /\ Len(chapters[5].pages) = 5

(***************************************************************************)
(* C4: toc_depth (default 3) only filters the navigation: the navigation   *)
(* lists, in outline order, exactly the sections of the entries whose      *)
(* level is at most toc_depth, and the sections and their contents are the *)
(* same for every toc_depth.                                               *)
(***************************************************************************)
NavDepth == IF kwargs.toc_depth = Absent THEN 3 ELSE kwargs.toc_depth[1]
RECURSIVE NavOf(_, _)
NavOf(chs, k) ==
    IF k > Len(chs) THEN <<>>
    ELSE (IF pdf_toc[EntryOfChapter(k)][1] <= NavDepth THEN <<chs[k].file_name>> ELSE <<>>)
             \o NavOf(chs, k + 1)

C4_TocDepthOnlyNavigation ==
    (Returned /\ pdf_toc # <<>>)
    => /\ toc = NavOf(chapters, 1)
       /\ \A d \in TocDepths \ {kwargs.toc_depth} :
             \E other \in {convert(pages, pdf_toc, [kwargs EXCEPT !.toc_depth = d])} :
                other.chapters = chapters /\ other.text_by_page = text_by_page

\* An outline with an entry at level 3 and one at level 4 was converted with
\* the default toc_depth: both entries gave a section, and only the level 3
\* entry is in the navigation.
C4_Witness ==
    /\ Returned /\ Len(pdf_toc) = 2 /\ Len(chapters) = 2
    /\ pdf_toc[1][1] = 3 /\ pdf_toc[2][1] = 4
    /\ kwargs.toc_depth = Absent /\ toc = <<chapters[1].file_name>>

(***************************************************************************)
(* C5: an outline entry whose title is empty or a placeholder (a lone      *)
(* space, a dash, a zero-width space) never gives a section and is never   *)
(* in the navigation; every other entry gives a section.                   *)
(* Refuted for the empty title, which the code does not skip.              *)
(***************************************************************************)
C5_PlaceholdersAndEmptySkipped ==
    (Returned /\ pdf_toc # <<>>)
    => \A i \in 1..Len(pdf_toc) :
          IF pdf_toc[i][2] \in {"", " ", "- ", ZWSP \o " "}
          THEN ChaptersOfEntry(i) = {} /\ \A k \in 1..Len(toc) : toc[k] # EntryFile(i)
          ELSE Cardinality(ChaptersOfEntry(i)) = 1

\* C5, amended: an entry whose title is exactly ' ', '- ' or U+200B followed by
\* a space never gives a section and is never in the navigation; every other
\* entry, the one with an empty title included, gives exactly one section,
\* which carries the entry's title.
C5_PlaceholdersSkipped ==
    (Returned /\ pdf_toc # <<>>)
    => \A i \in 1..Len(pdf_toc) :
          IF pdf_toc[i][2] \in {" ", "- ", ZWSP \o " "}
          THEN ChaptersOfEntry(i) = {} /\ \A k \in 1..Len(toc) : toc[k] # EntryFile(i)
          ELSE /\ Cardinality(ChaptersOfEntry(i)) = 1
               /\ \A k \in ChaptersOfEntry(i) : chapters[k].title = pdf_toc[i][2]

\* An outline of a dash placeholder and an entry with an empty title was
\* converted: only the second gave a section.
C5_Witness ==
    /\ Returned /\ Len(pdf_toc) = 2
    /\ pdf_toc[1][2] = "- " /\ pdf_toc[2][2] = ""
    /\ Len(chapters) = 1 /\ chapters[1].file_name = EntryFile(2)
    /\ toc = <<EntryFile(2)>>

(***************************************************************************)
(* C6: an outline with start pages out of order or out of 1..pageCount is  *)
(* never used unvalidated: the conversion raises, or it gives the sections *)
(* of the no-outline path and logs a warning.                              *)
(* Stated for documents with pages and outlines without skipped titles.    *)
(* Refuted by the code: the outline is sliced as it is, without a warning. *)
(***************************************************************************)
C6_MalformedOutlineRejectedOrFallback ==
    (/\ result # "none" /\ PageCount >= 1
     /\ MalformedOutline(pdf_toc, PageCount) /\ TitledOutline(pdf_toc))
    => \/ result = "ValueError"
       \/ /\ chapters = no_toc_chapters(text_by_page)
          /\ \E k \in 1..Len(log) : log[k].level = "warning"

(***************************************************************************)
(* C7: constructing a ChapterDetector with a pattern that does not compile *)
(* raises ValueError from the constructor and leaves no detector object,   *)
(* so every detector a method is called on holds the compiled form of its  *)
(* pattern.                                                                *)
(***************************************************************************)
C7_InvalidPatternRaises ==
    /\ (ctor # NoCall /\ ~re_compile(ctor.pattern).ok)
           => (ctor.raised = "ValueError" /\ detector = NoDetector)
    /\ detector # NoDetector
           => /\ re_compile(detector.pattern).ok
              /\ detector.regex = re_compile(detector.pattern).atoms
    /\ det_call # NoCall => detector # NoDetector

\* The constructor was called with an unclosed parenthesis and raised.
C7_Witness ==
    ctor # NoCall /\ ctor.pattern = <<"(">> /\ ctor.raised = "ValueError"

(***************************************************************************)
(* C8: a conversion configured with a chapter pattern that does not        *)
(* compile raises the configuration error before any page is processed:    *)
(* nothing of the pipeline has run and no output is produced.              *)
(* Refuted by the code: the pages are extracted first, the failure is      *)
(* logged as a warning and the book is written without chapter formatting. *)
(***************************************************************************)
C8_InvalidPatternRaisedBeforePages ==
    (/\ result # "none" /\ PageCount >= 1
     /\ kwargs.chapter_pattern # Absent /\ ~re_compile(kwargs.chapter_pattern[1]).ok)
    => /\ result = "ValueError"
       /\ \A k \in 1..Len(log) : log[k].level # "stage"

(***************************************************************************)
(* C9: format_chapter_openings returns the text with each match m replaced *)
(* by '<div class="T">m</div>', T the detector's style class, and every    *)
(* character outside the matches unchanged and in place: the replacement   *)
(* in reverse match order equals one left-to-right substitution. (With the *)
(* empty pattern the detector reports no match.)                           *)
(***************************************************************************)
MatchesIn(text) ==
    IF detector.pattern = <<>> THEN <<>> ELSE re_finditer(detector.regex, text)

\* text with the spans m wrapped, built left to right
Substituted(text, m, T) ==
    Join([k \in 1..(Len(m) + 1) |->
            Slice(text, IF k = 1 THEN 0 ELSE m[k - 1][2],
                        IF k > Len(m) THEN Len(text) ELSE m[k][1])
            \o (IF k > Len(m) THEN <<>>
                ELSE <<"<div class=\"" \o T \o "\">">>
                         \o Slice(text, m[k][1], m[k][2]) \o <<"</div>">>)])

C9_FormatIsLeftToRightSubstitution ==
    det_call.op = "format"
    => det_call.result =
           Substituted(det_call.text, MatchesIn(det_call.text), detector.style_class)

\* Two matches with a character between them were wrapped with a custom class.
C9_Witness ==
    /\ det_call.op = "format" /\ det_call.text = <<"a", "b", "a">>
    /\ detector.pattern = <<"a">> /\ detector.style_class = "custom-chapter"
    /\ det_call.result = <<"<div class=\"custom-chapter\">", "a", "</div>", "b",
                           "<div class=\"custom-chapter\">", "a", "</div>">>

(***************************************************************************)
(* C10: extract_chapter_titles returns the matched substrings in document  *)
(* order, as many as format_chapter_openings wraps in the same text.       *)
(***************************************************************************)
RECURSIVE CountOf(_, _)
CountOf(text, token) ==
    IF text = <<>> THEN 0
    ELSE (IF Head(text) = token THEN 1 ELSE 0) + CountOf(Tail(text), token)

C10_TitlesAreTheMatches ==
    det_call.op = "extract"
    => LET m == MatchesIn(det_call.text)
       IN /\ det_call.result = [k \in 1..Len(m) |-> Slice(det_call.text, m[k][1], m[k][2])]
          /\ Len(det_call.result) =
                 CountOf(format_chapter_openings(detector, det_call.text),
                         "<div class=\"" \o detector.style_class \o "\">")

\* Two matches gave a two-element list of the matched substrings.
C10_Witness ==
    /\ det_call.op = "extract" /\ det_call.text = <<"a", "b", "a">>
    /\ detector.pattern = <<"a">>
    /\ det_call.result = << <<"a">>, <<"a">> >>

(***************************************************************************)
(* C11: with the empty pattern, format_chapter_openings returns its input  *)
(* unchanged and extract_chapter_titles returns the empty list, for every  *)
(* text; with a pattern that is not empty and has no match in the text,    *)
(* format_chapter_openings returns the text unchanged and                  *)
(* extract_chapter_titles the empty list.                                  *)
(***************************************************************************)
NoMatchIn(text) ==
    detector.pattern = <<>> \/ re_finditer(detector.regex, text) = <<>>

C11_EmptyPatternAndNoMatchAreNoOps ==
    (det_call # NoCall /\ NoMatchIn(det_call.text))
    => /\ det_call.op = "format" => det_call.result = det_call.text
       /\ det_call.op = "extract" => det_call.result = <<>>

\* The empty pattern, whose regex matches at every offset, left a text of two
\* characters as it was.
C11_Witness ==
    /\ det_call.op = "format" /\ detector.pattern = <<>>
    /\ det_call.text = <<"a", "b">> /\ det_call.result = <<"a", "b">>

(***************************************************************************)
(* C12: a constructed detector stays configured under any sequence of      *)
(* format_chapter_openings and extract_chapter_titles calls: no call       *)
(* changes its pattern, style class or compiled regex or moves it to the   *)
(* invalid state, and the result of a call is the one a detector fresh     *)
(* from the constructor gives for the text of that call.                   *)
(***************************************************************************)
FreshDetector == ChapterDetector__init__(ctor.pattern, ctor.style_class).self

C12_CallsLeaveDetectorAlone ==
    /\ [][detector # NoDetector
            => detector' = detector /\ detector'.state = "configured"]_vars
    /\ [](/\ det_call.op = "format"
                => det_call.result =
                       format_chapter_openings(FreshDetector, det_call.text)
          /\ det_call.op = "extract"
                => det_call.result =
                       extract_chapter_titles(FreshDetector, det_call.text))

\* After at least one call, which found nothing to wrap, the detector is
\* as it was constructed.
C12_Witness ==
    /\ det_call.op = "format" /\ det_call.text = <<"b">>
    /\ det_call.result = <<"b">>
    /\ detector = [state |-> "configured", pattern |-> <<"a">>,
                   style_class |-> "custom-chapter",
                   regex |-> <<[ch |-> "a", star |-> FALSE]>>]

(***************************************************************************)
(* C13: detect_columns on a page with no block returns the empty list, and *)
(* on a page with exactly one block returns exactly one column             *)
(* [x0, 0, x1, pageHeight]: the horizontal extent of the block and the     *)
(* full height of the page.                                                *)
(***************************************************************************)
C13_ColumnsOfNoneAndOfOneBlock ==
    call.op = "detect_columns"
    => LET blocks == call.page.blocks
       IN /\ Len(blocks) = 0 => call.result = <<>>
          /\ Len(blocks) = 1
                => call.result =
                       << <<blocks[1][1], 0, blocks[1][3], call.page.height>> >>

\* A page whose one block spans 60..90 gave the column 60..90 over the whole
\* height of the page.
C13_Witness ==
    /\ call.op = "detect_columns"
    /\ call.page.blocks = << <<60, 10, 90, 20, <<" ", "l">> >> >>
    /\ call.result = << <<60, 0, 90, 200>> >>

(***************************************************************************)
(* C14: the text _extract_columns rebuilds is the block texts joined by    *)
(* newlines in ascending (band, x0) order, the band of a block its y0      *)
(* divided by 20 and truncated; blocks of equal band and x0 keep the order *)
(* they were given in. So of two blocks in distinct bands the text of the  *)
(* one in the lower band comes first, whichever was given first.           *)
(***************************************************************************)
Band(b) == IF b[2] >= 0 THEN b[2] \div 20 ELSE -((-b[2]) \div 20)

\* Block i of blocks is read before block j.
ReadBefore(blocks, i, j) ==
    \/ Band(blocks[i]) < Band(blocks[j])
    \/ Band(blocks[i]) = Band(blocks[j]) /\ blocks[i][1] < blocks[j][1]
    \/ Band(blocks[i]) = Band(blocks[j]) /\ blocks[i][1] = blocks[j][1] /\ i < j

\* The indices of blocks in reading order.
ReadingOrder(blocks) ==
    CHOOSE perm \in [1..Len(blocks) -> 1..Len(blocks)] :
        \A k \in 1..(Len(blocks) - 1) : ReadBefore(blocks, perm[k], perm[k + 1])

\* The text of a block, empty when the block has none.
TextOrEmpty(b) == IF Len(b) < 5 THEN <<>> ELSE b[5]

TextInReadingOrder(blocks) ==
    LET perm == ReadingOrder(blocks)
    IN join_lines([k \in 1..Len(blocks) |-> TextOrEmpty(blocks[perm[k]])])

C14_RowsInBandOrder ==
    (call.op = "_extract_columns" /\ call.raised = "none")
    => LET blocks == call.page.blocks
       IN /\ call.result = TextInReadingOrder(blocks)
          /\ \A i, j \in 1..Len(blocks) :
                (Len(blocks) = 2 /\ Band(blocks[i]) < Band(blocks[j]))
                => call.result = blocks[i][5] \o <<"\n">> \o blocks[j][5]

\* The block of the third row was given first, and left of the block of the
\* first row: its text comes second.
C14_Witness ==
    /\ call.op = "_extract_columns"
    /\ call.page.blocks =
           << <<0, 30, 20, 40, <<"f", "-">> >>, <<60, -10, 80, 0, <<"i">> >> >>
    /\ call.result = <<"i", "\n", "f", "-">>

(***************************************************************************)
(* C15: a block with no text field, or a page that yields no usable text,  *)
(* never aborts the extraction: extract_text returns a text for every      *)
(* page, the missing text counted as empty and the other blocks and pages  *)
(* processed as usual.                                                     *)
(* Refuted by the code: _extract_columns reads b[4] of every block, the    *)
(* IndexError of a block without it is caught nowhere and ends             *)
(* extract_text.                                                           *)
(***************************************************************************)
C15_MissingTextNeverAborts ==
    call.op = "extract_text"
    => /\ call.raised = "none"
       /\ Len(call.result) = Len(converter.pages)
       /\ \A i \in 1..Len(call.result) :
             call.result[i] =
                 normalize_text(
                     IF call.detect_columns
                     THEN TextInReadingOrder(converter.pages[i].blocks)
                     ELSE page_get_text(converter.pages[i]),
                     call.preserve_style)

(***************************************************************************)
(* C16: for every text and either value of preserve_style, the result of   *)
(* normalize_text has no run of three or more newlines and neither begins  *)
(* nor ends with whitespace; the empty text gives the empty string.        *)
(***************************************************************************)
C16_NormalizedShape ==
    call.op = "normalize_text"
    => LET r == call.result
       IN /\ \A k \in 1..(Len(r) - 2) :
                ~(r[k] = "\n" /\ r[k + 1] = "\n" /\ r[k + 2] = "\n")
          /\ r # <<>> => ~IsSpace(r[1]) /\ ~IsSpace(r[Len(r)])
          /\ call.text = <<>> => r = <<>>

\* Three newlines between two full stops became two.
C16_Witness ==
    /\ call.op = "normalize_text" /\ call.preserve_style
    /\ call.text = <<".", "\n", "\n", "\n", ".">>
    /\ call.result = <<".", "\n", "\n", ".">>

(***************************************************************************)
(* C17: for every text x with no dialogue marker (no quote, apostrophe, em *)
(* dash or en dash), normalize_text(normalize_text(x)) = normalize_text(x),*)
(* also for several short lines in a row and for words hyphenated across   *)
(* successive line breaks.                                                 *)
(* Refuted by the code: the substitutions that join lines take their       *)
(* matches without overlap, so the letter or word that ends one match      *)
(* cannot begin the next and every other break of a run is left for a      *)
(* second pass.                                                            *)
(***************************************************************************)
HasMarker(text) == \E k \in 1..Len(text) : IsMarker(text[k])

C17_NormalizeTwiceIsNormalizeOnce ==
    (call.op = "normalize_text" /\ ~HasMarker(call.text))
    => normalize_text(call.result, call.preserve_style) = call.result

(***************************************************************************)
(* C18: extract_text returns exactly one text per page, in page order, and *)
(* the text at position i is the normalized text of page i, whatever the   *)
(* other pages hold.                                                       *)
(***************************************************************************)
C18_OneTextPerPage ==
    (call.op = "extract_text" /\ call.raised = "none")
    => /\ Len(call.result) = Len(converter.pages)
       /\ \A i \in 1..Len(converter.pages) :
             /\ i <= Len(call.result)
             /\ call.result[i] =
                    normalize_text(
                        IF call.detect_columns
                        THEN _extract_columns(converter.pages[i]).text
                        ELSE page_get_text(converter.pages[i]),
                        call.preserve_style)

\* A page of one block and a page without blocks gave two texts, the second
\* empty.
C18_Witness ==
    /\ call.op = "extract_text" /\ call.detect_columns
    /\ converter.pages = <<PageOfBlocks(<< <<0, 10, 30, 20, <<"b", "\n">> >> >>),
                           PageOfBlocks(<<>>)>>
    /\ call.result = << <<"b">>, <<>> >>

(***************************************************************************)
(* C19: batch_convert takes the requested formats in order and returns a   *)
(* mapping whose keys are exactly the normalized (lower-cased, stripped of *)
(* dots) formats whose conversion succeeded, each mapped to                *)
(* <output_dir>/<base>.<fmt>; a format that is unsupported or whose        *)
(* conversion raises is left out, without an exception to the caller and   *)
(* without keeping the later formats from being converted. When every      *)
(* requested format is supported and succeeds, every one of them has its   *)
(* entry; requests that differ in case or dots only share one.             *)
(***************************************************************************)
NormalizedFormat(fmt) == strip_dots(lower(fmt))
Succeeds(fmt) ==
    NormalizedFormat(fmt) \in SupportedFormats /\ NormalizedFormat(fmt) \notin fs.failing
\* The normalized formats that succeed, in the order of the request.
Succeeded(formats) ==
    LET ok == SelectSeq(formats, Succeeds)
    IN [k \in 1..Len(ok) |-> NormalizedFormat(ok[k])]
\* s without the elements that occurred before.
RECURSIVE FirstOccurrences(_)
FirstOccurrences(s) ==
    IF s = <<>> THEN <<>>
    ELSE LET init == FirstOccurrences(SubSeq(s, 1, Len(s) - 1))
         IN IF \E k \in 1..(Len(s) - 1) : s[k] = s[Len(s)] THEN init
            ELSE Append(init, s[Len(s)])
ExpectedPath(fmt) ==
    call.output_dir \o <<"/">> \o splitext_root(basename(converter.pdf_path))
        \o <<".">> \o fmt
KeysAndPaths ==
    /\ call.raised = "none"
    /\ call.converted = Succeeded(call.formats)
    /\ [k \in 1..Len(call.result) |-> call.result[k][1]]
           = FirstOccurrences(Succeeded(call.formats))
    /\ \A k \in 1..Len(call.result) :
          call.result[k][2] = ExpectedPath(call.result[k][1])

\* The entries of the mapping whose key is the normalized form of fmt.
EntriesOf(fmt) == {k \in 1..Len(call.result) : call.result[k][1] = NormalizedFormat(fmt)}

Authenticated ==
    ~fs.needs_pass \/ (truthy(call.password) /\ call.password[1] = fs.password)
AllSet ==
    /\ converter.state = "open"
    /\ {"metadata", "pages", "images", "toc"} \subseteq DOMAIN converter

\* As claimed: any failure while reading the document raises ValueError.
\* Refuted by the code: extract_images and get_toc log their exceptions and
\* return what they have, and the construction succeeds.
C20_EveryReadFailureRaises ==
    call.op = "__init__"
    => /\ call.raised = "FileNotFoundError" <=> fs.kind = "missing"
       /\ call.raised = "ValueError"
             <=> /\ fs.kind # "missing"
                 /\ fs.kind = "not_pdf" \/ ~Authenticated \/ fs.reading # "ok"
       /\ call.raised # "none" => converter = NoConverter
       /\ call.raised = "none" => AllSet

\* As the code has it: of the failures while reading, those of the metadata
\* and of the pages raise ValueError; a failure while reading the images or
\* the outline leaves images or toc empty.
C20_ConstructionFailures ==
    call.op = "__init__"
    => /\ call.raised = "FileNotFoundError" <=> fs.kind = "missing"
       /\ call.raised = "ValueError"
             <=> /\ fs.kind # "missing"
                 /\ \/ fs.kind = "not_pdf" \/ ~Authenticated
                    \/ fs.reading \in {"metadata", "pages"}
       /\ call.raised # "none" => converter = NoConverter
       /\ call.raised = "none"
             => /\ AllSet
                /\ converter.pages = fs.pages
                /\ fs.reading = "images" => converter.images = <<>>
                /\ fs.reading = "toc" => converter.toc = <<>>
                /\ fs.reading = "ok"
                      => converter.images = fs.images /\ converter.toc # <<>>

\* An encrypted document and a wrong password: ValueError, and no converter.
C20_Witness ==
    /\ call.op = "__init__" /\ fs.kind = "pdf" /\ fs.needs_pass /\ fs.reading = "ok"
    /\ call.password = Given("guess")
    /\ call.raised = "ValueError" /\ converter = NoConverter

(***************************************************************************)
(* C23: detect_columns walks the blocks in ascending x0 order. A block     *)
(* opens a new column exactly when its x0 is greater than the greatest x1  *)
(* of the current column plus threshold * pageWidth, and otherwise only    *)
(* extends the x1 of the current column. The columns come in ascending x0  *)
(* order, each from 0 to the page height, and a page with blocks has at    *)
(* least one column and at most as many as it has blocks.                  *)
(***************************************************************************)
GreatestX1(s, a, b) ==
    CHOOSE m \in {s[j][3] : j \in a..b} : \A j \in a..b : s[j][3] <= m
LastOpened(S, k) == CHOOSE a \in S : a <= k /\ \A b \in S : b <= k => b <= a
\* S is the set of the blocks of s that open a column.
OpensColumns(S, s, page, threshold) ==
    /\ 1 \in S
    /\ \A k \in 2..Len(s) :
          k \in S <=> 10 * s[k][1] > 10 * GreatestX1(s, LastOpened(S, k - 1), k - 1)
                                        + threshold * page.width
NthOf(S, j) == CHOOSE a \in S : Cardinality({b \in S : b < a}) = j - 1
ColumnEnd(S, s, j) == IF j = Cardinality(S) THEN Len(s) ELSE NthOf(S, j + 1) - 1
ColumnsOpenedBy(S, s, page) ==
    [j \in 1..Cardinality(S) |->
        <<s[NthOf(S, j)][1], 0, GreatestX1(s, NthOf(S, j), ColumnEnd(S, s, j)),
          page.height>>]

C23_ColumnsFollowTheWalk ==
    (call.op = "detect_columns" /\ call.page.blocks # <<>>)
    => \E s \in {stable_sort(call.page.blocks, "x0")} :
          /\ \A k \in 1..(Len(s) - 1) : s[k][1] <= s[k + 1][1]
          /\ \E S \in SUBSET (1..Len(s)) :
                /\ OpensColumns(S, s, call.page, call.threshold)
                /\ call.result = ColumnsOpenedBy(S, s, call.page)
          /\ \A j \in 1..(Len(call.result) - 1) :
                call.result[j][1] <= call.result[j + 1][1]
          /\ \A j \in 1..Len(call.result) :
                call.result[j][2] = 0 /\ call.result[j][4] = call.page.height
          /\ Len(call.result) >= 1 /\ Len(call.result) <= Len(call.page.blocks)

\* Three blocks given right to left: the first block at x0 = 60 opens a
\* second column beyond the one at 0..20, the second one extends it to 90.
C23_Witness ==
    /\ call.op = "detect_columns" /\ call.threshold = DefaultThreshold
    /\ call.page.blocks = << <<60, -10, 80, 0, <<"i">> >>,
                             <<60, 10, 90, 20, <<" ", "l">> >>,
                             <<0, -10, 20, 0, <<"a">> >> >>
    /\ call.result = << <<0, 0, 20, 200>>, <<60, 0, 90, 200>> >>

(***************************************************************************)
(* C29: for blocks with x0 <= x1, a non-negative threshold and a positive  *)
(* page width, the columns of detect_columns are pairwise disjoint, each   *)
(* column's x0 greater than the x1 of the column before it plus            *)
(* threshold * pageWidth, and the extent [x0, x1] of every block lies      *)
(* inside exactly one column.                                              *)
(***************************************************************************)
WellFormedBlocks(blocks) == \A k \in 1..Len(blocks) : blocks[k][1] <= blocks[k][3]
Inside(block, column) == column[1] <= block[1] /\ block[3] <= column[3]

C29_ColumnsDisjointAndCovering ==
    (/\ call.op = "detect_columns"
     /\ WellFormedBlocks(call.page.blocks)
     /\ call.threshold >= 0 /\ call.page.width > 0)
    => /\ \A j \in 1..(Len(call.result) - 1) :
             10 * call.result[j + 1][1]
                 > 10 * call.result[j][3] + call.threshold * call.page.width
       /\ \A k \in 1..Len(call.page.blocks) :
             Cardinality({j \in 1..Len(call.result) :
                             Inside(call.page.blocks[k], call.result[j])}) = 1

\* A wide and a narrow block on the right and one on the left: the right
\* column lies beyond the threshold and holds both of its blocks.
C29_Witness ==
    /\ call.op = "detect_columns" /\ call.threshold = DefaultThreshold
    /\ call.page.blocks = << <<60, 10, 90, 20, <<" ", "l">> >>,
                             <<0, 30, 20, 40, <<"f", "-">> >>,
                             <<60, -10, 80, 0, <<"i">> >> >>
    /\ call.result = << <<0, 0, 20, 200>>, <<60, 0, 90, 200>> >>

(***************************************************************************)
(* C24: with preserve_style true, every line of the input after the first  *)
(* that starts with whitespace keeps exactly its leading whitespace in the *)
(* result, whatever the line before it ends with. Stated for the indented  *)
(* lines that follow a line with text: the result has a line after its     *)
(* first that starts with the same whitespace and the same character.      *)
(* Refuted by the code: the line join takes the break and the indentation  *)
(* of a line that starts with a lowercase letter when the line before it   *)
(* ends with a lowercase letter, a comma, a semicolon or a colon, and the  *)
(* hyphen join does the same after a hyphenated word.                      *)
(***************************************************************************)
LinesOf(text) == split_lines(text, <<>>)
Indent(line) == Slice(line, 0, ws_end(line, 0))
IsBlank(line) == ws_end(line, 0) = Len(line)
Indented(line) == Indent(line) # <<>> /\ ~IsBlank(line)
\* The line starts with the same whitespace and the same character after it.
SameStart(a, b) == ~IsBlank(b) /\ Slice(a, 0, ws_end(a, 0) + 1) = Slice(b, 0, ws_end(b, 0) + 1)

C24_IndentationKept ==
    (call.op = "normalize_text" /\ call.preserve_style)
    => \E lines \in {LinesOf(nfc(call.text))}, out \in {LinesOf(call.result)} :
          \A k \in 2..Len(lines) :
              (Indented(lines[k]) /\ \E n \in 1..(k - 1) : ~IsBlank(lines[n]))
              => \E j \in 2..Len(out) : SameStart(lines[k], out[j])

(***************************************************************************)
(* C25: with preserve_style true, a line whose first non-blank character   *)
(* is a dialogue marker is never merged into the line before it: neither   *)
(* the join of lowercase to lowercase nor the hyphen join takes the line   *)
(* break in front of it. The lines of dialogue that follow a line with     *)
(* text are as many in the result as in the input.                         *)
(***************************************************************************)
OpensDialogue(line) == marker_at(line, ws_end(line, 0))
DialogueLines(lines) ==
    {k \in 2..Len(lines) :
        OpensDialogue(lines[k]) /\ \E n \in 1..(k - 1) : ~IsBlank(lines[n])}

C25_DialogueLinesNeverMerged ==
    (call.op = "normalize_text" /\ call.preserve_style)
    => \E lines \in {LinesOf(call.text)}, out \in {LinesOf(call.result)} :
          /\ Cardinality(DialogueLines(out)) = Cardinality(DialogueLines(lines))
          /\ \A k \in DialogueLines(lines) :
                \E j \in DialogueLines(out) : SameStart(lines[k], out[j])

\* A hyphenated word before a line of dialogue: the break is still there.
C25_Witness ==
    /\ call.op = "normalize_text" /\ call.preserve_style
    /\ call.text = <<"a", "-", "\n", "\"", "a">>
    /\ call.result = <<"a", "-", "\n", "\"", "a">>

(***************************************************************************)
(* C26: with preserve_style false, in the result of normalize_text every   *)
(* run of whitespace inside a line is a single space, no line break is     *)
(* left between two lowercase letters with only whitespace around it, also *)
(* in a sequence of one-letter lines, and no word is left split as 'w1-',  *)
(* line break, 'w2'.                                                       *)
(* Refuted by the code: the substitutions take their matches without       *)
(* overlap, so of the breaks of a sequence of one-letter lines, and of     *)
(* successive hyphenations, only every other one is joined.                *)
(***************************************************************************)
SingleSpaces(line) ==
    \A k \in 1..Len(line) :
        IsSpace(line[k]) => line[k] = " " /\ (k < Len(line) => ~IsSpace(line[k + 1]))
\* A run of whitespace with a line break in it, from offset i to offset j.
BreakBetween(text, i, j) ==
    /\ i < j /\ j = ws_end(text, i) /\ newlines_in(text, i, j) >= 1
LowerBreakLower(text) ==
    \E i \in 1..Len(text) :
        /\ IsLower(text[i]) /\ BreakBetween(text, i, ws_end(text, i))
        /\ ws_end(text, i) < Len(text) /\ IsLower(text[ws_end(text, i) + 1])
SplitWord(text) ==
    \E i \in 2..Len(text) :
        /\ IsWord(text[i - 1]) /\ text[i] = "-"
        /\ BreakBetween(text, i, ws_end(text, i))
        /\ ws_end(text, i) < Len(text) /\ IsWord(text[ws_end(text, i) + 1])

C26_EveryBreakJoined ==
    (call.op = "normalize_text" /\ ~call.preserve_style)
    => \E out \in {LinesOf(call.result)} :
          /\ \A k \in 1..Len(out) : SingleSpaces(out[k])
          /\ ~LowerBreakLower(call.result)
          /\ ~SplitWord(call.result)

(***************************************************************************)
(* C22: when a chapter pattern is requested and compiles, the content of   *)
(* every section handed to the writer is the text of its pages with the    *)
(* matches of the pattern wrapped, whichever way the sections were made:   *)
(* from the outline, as 'Chapter n' chunks or as 'Page n' sections.        *)
(* Refuted by the code: only the loop over the outline calls               *)
(* format_chapter_openings; the sections of a document without outline     *)
(* hold the text of their pages as it is.                                  *)
(***************************************************************************)
TextOfChapter(k) ==
    Join([j \in 1..Len(chapters[k].pages) |-> text_by_page[chapters[k].pages[j]]])

C22_PatternAppliedToEverySection ==
    (Returned /\ kwargs.chapter_pattern # Absent)
    => \E r \in {ChapterDetector__init__(kwargs.chapter_pattern[1], DefaultStyleClass)} :
          r.raised = "none"
          => \A k \in 1..Len(chapters) :
                chapters[k].content = format_chapter_openings(r.self, TextOfChapter(k))

(***************************************************************************)
(* C30: for the same page texts and the same non-empty outline the EPUB,   *)
(* DOCX, HTML, text and Markdown writers derive the same sequence of       *)
(* sections: the same outline entries give sections, in the same order,    *)
(* each with the same pages and the same content.                          *)
(* Refuted by the code: the loop of the EPUB writer passes over the        *)
(* entries whose title is ' ', and it joins the page texts after           *)
(* collapsing their whitespace; the loops of the other writers do neither. *)
(***************************************************************************)
SectionWriters == {"to_epub", "to_docx", "to_html", "to_text", "to_markdown"}
WriterDefaults == [toc_depth |-> Absent, chapter_pattern |-> Absent, strip_text |-> <<>>]

\* What the writers of the EPUB and of the DOCX make of the open document.
SectionsOfOthers ==
    {r.sections : r \in {x \in {to_epub(converter, fs, call.output_path, WriterDefaults),
                                 to_docx(converter, fs, call.output_path, WriterDefaults)} :
                             x.raised = "none"}}

C30_WritersDeriveSameSections ==
    (call.op \in SectionWriters /\ call.raised = "none" /\ converter.toc # <<>>)
    => \A sections \in SectionsOfOthers : sections = call.sections

(***************************************************************************)
(* C21: each of to_epub, to_docx, to_html, to_text, to_markdown and        *)
(* to_mobi either returns exactly the output path it was given, the file   *)
(* at that path written, or raises ValueError; whatever fails inside the   *)
(* conversion, no exception of another type reaches the caller.            *)
(***************************************************************************)
SingleFormatOps == SectionWriters \cup {"to_mobi"}
FormatOf(op) ==
    CASE op = "to_epub" -> "epub" [] op = "to_docx" -> "docx" [] op = "to_html" -> "html"
      [] op = "to_text" -> "txt" [] op = "to_markdown" -> "md" [] op = "to_mobi" -> "mobi"

EpubOfMobi == to_epub(converter, [fs EXCEPT !.writable = TRUE], TempEpub, WriterDefaults)

CliRun == call.op = "batch_convert_files"
RunFormats == parse_formats(call.args.format)
RunInputs == collect_input_files(fs, call.args.inputs)
LogLines == {call.log[k] : k \in 1..Len(call.log)}
Refused == (\E k \in 1..Len(RunFormats) : RunFormats[k] \notin CliFormats) \/ RunInputs = <<>>

\* What opening the file at the path gives, and what the conversion of the
\* document to the format gives, each on its own.
OpensAlone(path) == PDFConverter__init__(file_at(fs, path), call.args.password)
ConvertsAlone(path, fmt) ==
    to_format(OpensAlone(path).self, [file_at(fs, path) EXCEPT !.files = {}], fmt,
              path_join(call.args.output_dir,
                        splitext_root(basename(path)) \o <<".">> \o fmt),
              cli_options(call.args)).raised = "none"
ExpectedAttempts ==
    Join([k \in 1..Len(RunInputs) |->
             IF OpensAlone(RunInputs[k]).raised # "none" THEN <<>>
             ELSE [j \in 1..Len(RunFormats) |->
                      [path |-> RunInputs[k], fmt |-> RunFormats[j],
                       ok |-> ConvertsAlone(RunInputs[k], RunFormats[j])]]])

C27_FailuresStayWithTheirDocument ==
    CliRun
    => /\ Refused => call.exit_code = 1 /\ call.opened = <<>> /\ call.attempts = <<>>
       /\ (~Refused /\ fs.can_make_dirs)
          => /\ call.opened = [k \in 1..Len(RunInputs) |->
                                  [path |-> RunInputs[k],
                                   ok |-> OpensAlone(RunInputs[k]).raised = "none"]]
             /\ call.attempts = ExpectedAttempts
             /\ \A k \in 1..Len(call.opened) :
                   ~call.opened[k].ok
                   <=> LogLine("file_error", call.opened[k].path, <<>>) \in LogLines
             /\ \A k \in 1..Len(call.attempts) :
                   ~call.attempts[k].ok
                   <=> LogLine("format_error", call.attempts[k].path, call.attempts[k].fmt)
                          \in LogLines
             /\ \A k \in 1..Len(call.log) :
                   \/ /\ call.log[k].what = "file_error"
                      /\ \E j \in 1..Len(call.opened) :
                            call.opened[j] = [path |-> call.log[k].path, ok |-> FALSE]
                   \/ /\ call.log[k].what = "format_error"
                      /\ \E j \in 1..Len(call.attempts) :
                            call.attempts[j] = [path |-> call.log[k].path,
                                                fmt |-> call.log[k].fmt, ok |-> FALSE]
       /\ call.exit_code = 0 <=> \E k \in 1..Len(call.opened) : call.opened[k].ok
       /\ call.exit_code \in {0, 1}

\* The first file cannot be opened, the second is opened and neither of
\* its two conversions succeeds: the run goes on and ends with exit code 0.
C27_Witness ==
    /\ CliRun /\ call.exit_code = 0
    /\ Len(call.opened) = 2 /\ ~call.opened[1].ok /\ call.opened[2].ok
    /\ Len(call.attempts) = 2 /\ ~call.attempts[1].ok /\ ~call.attempts[2].ok
    /\ Len(call.log) = 3

====
